---- MODULE Spec2Model ----
(***************************************************************************)
(* Attendance-by-face classroom tool: the App component (session, view     *)
(* router, registry, ledger) and the LiveScanner component (camera, auto   *)
(* timer, capture -> analyzeFrame -> record).                              *)
(*                                                                         *)
(* Rendering is modelled as React 18 does it: the state updates of one     *)
(* task are batched into one render, and the effects of that render run    *)
(* with it.  A function created by a render (handleScan, handleMark-       *)
(* Attendance) keeps the props and state of that render for as long as it  *)
(* is referenced: by the interval that the auto-scan effect installed and  *)
(* by the continuation of a pending analyzeFrame call.  Those captured     *)
(* values are part of the state below (interval, inflight).                *)
(*                                                                         *)
(* The runtime is taken to use the en-US locale ("h:mm:ss AM") in the UTC  *)
(* zone; the clock counts seconds from 00:00:00 UTC of the first day of a  *)
(* non-leap year.                                                          *)
(***************************************************************************)
EXTENDS Integers, Sequences, FiniteSets, TLC

NULL == "<null>"            \* JS null, where a string is expected
UNDEFINED == "<undefined>"  \* JS undefined, where a string is expected
Null == [null |-> TRUE]     \* JS null, where an object is expected

(***************************************************************************)
(* Bounds of the model.                                                    *)
(***************************************************************************)
MaxElapsed == 120    \* seconds of wall-clock time a behaviour may span
MaxScans == 2        \* handleScan runs in a behaviour
MaxCameraStarts == 2 \* getUserMedia requests of one LiveScanner instance
MaxRegistry == 3     \* students in an initial registry of SpecRegistry

SecondsPerDay == 24 * 60 * 60
\* 23:58:30 on 31 January: the bounded run crosses midnight and a month end.
StartClock == 30 * SecondsPerDay + (SecondsPerDay - 90)
Deltas == {40}

(***************************************************************************)
(* Data (src/unnamed/part_000: Student, User, AttendanceStatus,            *)
(* AttendanceRecord, ScanResult, View).                                    *)
(***************************************************************************)
SUPER_ADMIN ==
  [username |-> "prahald", password |-> "Prahlad@12",
   name |-> "Prahlad (Super Admin)", role |-> "admin", assignedClass |-> UNDEFINED]

DEFAULT_SCHOOL_CONFIG == [name |-> "EduScan AI", logo |-> ""]

\* Teacher accounts as the admin panel creates them.
TeacherA ==
  [username |-> "anita", password |-> "pwA", name |-> "Anita",
   role |-> "teacher", assignedClass |-> "10-A"]

TeacherB ==
  [username |-> "bala", password |-> "pwB", name |-> "Bala",
   role |-> "teacher", assignedClass |-> "10-B"]

\* Students as the registry form creates them.
StudentS1 == [id |-> "s1", name |-> "Asha", rollNumber |-> "101", classSection |-> "10-A"]

StudentS2 == [id |-> "s2", name |-> "Ravi", rollNumber |-> "102", classSection |-> "10-B"]

StudentS3 == [id |-> "s3", name |-> "Asha", rollNumber |-> "103", classSection |-> "10-A"]

StudentS4 == [id |-> "s4", name |-> "Dev", rollNumber |-> "104", classSection |-> "10-B"]

\* A class of its own: one teacher and one student of "7-C".
TeacherC ==
  [username |-> "chitra", password |-> "pwC", name |-> "Chitra",
   role |-> "teacher", assignedClass |-> "7-C"]

StudentS101 ==
  [id |-> "S101", name |-> "Kiran", rollNumber |-> "7", classSection |-> "7-C"]

\* Further students of 10-A, registered after the four above.
StudentS5 == [id |-> "s5", name |-> "Neel", rollNumber |-> "105", classSection |-> "10-A"]

StudentS6 == [id |-> "s6", name |-> "Tara", rollNumber |-> "106", classSection |-> "10-A"]

StudentS7 == [id |-> "s7", name |-> "Omar", rollNumber |-> "107", classSection |-> "10-A"]

StudentS8 == [id |-> "s8", name |-> "Lila", rollNumber |-> "108", classSection |-> "10-A"]

PRESENT == "PRESENT"
PROXY_ATTEMPT == "PROXY_ATTEMPT"

\* JS truthiness of a string-or-null value.
Truthy(x) == x \notin {NULL, UNDEFINED, ""}

VARIABLES
  currentUser,    \* App: the session's User record, or Null
  currentView,    \* App: the routed view
  students,       \* App: the registry, in registration order
  records,        \* App: the ledger, most recent first
  users,          \* App: the user list
  schoolConfig,   \* App: the school's name and logo
  now,            \* the wall clock, in seconds
  isActive,       \* LiveScanner: camera on (video.srcObject is set)
  isProcessing,   \* LiveScanner: a scan of this instance is running
  autoMode,       \* LiveScanner: auto scan switched on
  logs,           \* LiveScanner: the last LogCap log lines, newest first
  lastScanResult, \* LiveScanner: the last verdict received, or Null
  pendingStarts,  \* LiveScanner: getUserMedia requests of this instance pending
  interval,       \* the auto-scan interval: Null, or the handleScan it calls
  inflight,       \* analyzeFrame calls pending: [id, mounted, h], h the handleScan
                  \* that awaits, mounted whether its instance still is
  answers,        \* the verdicts the analyzer service can give in this run
  nScans,         \* handleScan runs so far
  nStarts,        \* LiveScanner: getUserMedia requests of this instance so far
  storage,        \* localStorage: the item under each of the four keys, or Null
  pendingLoad,    \* the state updates the load effect has queued, or Null
  lastOp          \* history: the handleScan step that produced this state, if any

vars ==
  <<currentUser, currentView, students, records, users, schoolConfig, now, isActive,
    isProcessing, autoMode, logs, lastScanResult, pendingStarts, nStarts,
    interval, inflight, answers, nScans, storage, pendingLoad, lastOp>>

\* The App state that the LiveScanner does not write, and the analyzer.
appVars == <<currentUser, currentView, students, users, schoolConfig, answers>>

scannerVars ==
  <<isActive, isProcessing, autoMode, logs, lastScanResult, pendingStarts, nStarts>>

(***************************************************************************)
(* Clock values as the code renders them.                                  *)
(***************************************************************************)
MonthLengths == <<31, 28, 31, 30, 31, 30, 31, 31, 30, 31, 30, 31>>

RECURSIVE MonthDay(_, _)
MonthDay(m, d) ==
  IF d < MonthLengths[m] THEN [m |-> m, d |-> d + 1]
  ELSE MonthDay(m + 1, d - MonthLengths[m])

\* new Date().toISOString().split('T')[0]: the UTC calendar date.
IsoDate(t) ==
  LET md == MonthDay(1, t \div SecondsPerDay)
  IN [y |-> 2025, m |-> md.m, d |-> md.d]

\* new Date().toLocaleTimeString(): "h:mm:ss AM" on a 12-hour clock.
LocaleTime(t) ==
  LET s == t % SecondsPerDay
      h24 == s \div 3600
  IN [h |-> IF h24 % 12 = 0 THEN 12 ELSE h24 % 12,
      m |-> (s % 3600) \div 60,
      s |-> s % 60,
      ap |-> IF h24 < 12 THEN "AM" ELSE "PM"]

\* new Date(`1970/01/01 ${timestamp}`).getTime(), in milliseconds.
ParseTime(ts) ==
  (((ts.h % 12) + (IF ts.ap = "PM" THEN 12 ELSE 0)) * 3600 + ts.m * 60 + ts.s) * 1000

Min(a, b) == IF a < b THEN a ELSE b

Abs(x) == IF x < 0 THEN -x ELSE x

(***************************************************************************)
(* App: role filter and ledger append.                                     *)
(***************************************************************************)
TeacherFilterApplies_Never(user) == FALSE

TeacherFilterApplies(user) == user.role = "teacher" /\ Truthy(user.assignedClass)

filteredStudents_OtherClasses(all, user) ==
  IF user = Null THEN <<>>
  ELSE IF TeacherFilterApplies(user)
       THEN LET InClass(s) == s.classSection # user.assignedClass
            IN SelectSeq(all, InClass)
       ELSE all

filteredStudents(all, user) ==
  IF user = Null THEN <<>>
  ELSE IF TeacherFilterApplies(user)
       THEN LET InClass(s) == s.classSection = user.assignedClass
            IN SelectSeq(all, InClass)
       ELSE all

filteredRecords_Unfiltered(recs, all, user) ==
  IF user = Null THEN <<>> ELSE recs

filteredRecords(recs, all, user) ==
  IF user = Null THEN <<>>
  ELSE IF TeacherFilterApplies(user)
       THEN LET InClass(s) == s.classSection = user.assignedClass
                classStudents == SelectSeq(all, InClass)
                classStudentIds == { classStudents[i].id : i \in 1..Len(classStudents) }
                Visible(r) == r.studentId \in classStudentIds
            IN SelectSeq(recs, Visible)
       ELSE recs

DedupWindowMs == 60000

IsRecentOf_Inclusive(r, record) ==
  /\ r.studentId = record.studentId
  /\ r.date = record.date
  /\ Abs(ParseTime(r.timestamp) - ParseTime(record.timestamp)) <= DedupWindowMs

IsRecentOf_AcrossMidnight(r, record) ==
  LET apart == Abs(ParseTime(r.timestamp) - ParseTime(record.timestamp))
  IN /\ r.studentId = record.studentId
     /\ \/ r.date = record.date /\ apart < DedupWindowMs
        \/ r.date # record.date /\ SecondsPerDay * 1000 - apart < DedupWindowMs

\* The predicate of records.find(...) in handleMarkAttendance.
IsRecentOf(r, record) ==
  /\ r.studentId = record.studentId
  /\ r.date = record.date
  /\ Abs(ParseTime(r.timestamp) - ParseTime(record.timestamp)) < DedupWindowMs

\* records.find(...) of handleMarkAttendance is defined (truthy).
HasRecentRecord(seen, record) == \E i \in 1..Len(seen) : IsRecentOf(seen[i], record)

handleMarkAttendance_NoDedup(seen, prev, record) == <<record>> \o prev

\* handleMarkAttendance(record): `seen` is the records array of the render that
\* created the handler, `prev` the state that setRecords updates.
handleMarkAttendance(seen, prev, record) ==
  IF ~HasRecentRecord(seen, record) THEN <<record>> \o prev ELSE prev

(***************************************************************************)
(* geminiService.analyzeFrame: the analyzer is an external service; what   *)
(* it may answer is drawn from these sets.  Confidence is in percent.      *)
(***************************************************************************)
MatchIds == {NULL, "s1", "s2", "s9"}

Verdict(m, r) ==
  [matchId |-> m, confidence |-> IF r THEN 92 ELSE 35, isRealPerson |-> r,
   emotion |-> IF r THEN "Focused" ELSE "Neutral",
   description |-> IF r THEN "clear match" ELSE "flat photo"]

Verdicts == { Verdict(m, r) : m \in MatchIds, r \in BOOLEAN }

\* The answers used when the subject is the orchestration of scans.
ScanAnswers == { Verdict("s1", TRUE), Verdict("s2", FALSE), Verdict(NULL, FALSE) }

\* Response texts that JSON.parse accepts although properties the response
\* schema requires are absent: a match without isRealPerson, and the object
\* parsed from '{}' when the response has no text.
VerdictWithoutLiveness ==
  [matchId |-> "s1", confidence |-> 92, emotion |-> "Focused",
   description |-> "clear match"]

EmptyVerdict == [parsed |-> TRUE]

MalformedVerdicts == { VerdictWithoutLiveness, EmptyVerdict }

\* required: ["confidence", "isRealPerson", "emotion", "description"]
RequiredFields == {"confidence", "isRealPerson", "emotion", "description"}

\* The answer analyzeFrame gives without calling the service.
NoStudentsVerdict ==
  [matchId |-> NULL, confidence |-> 0, isRealPerson |-> FALSE,
   emotion |-> "No students registered",
   description |-> "Please register students first."]

ReferenceCap == 5

activeStudents_All(registeredStudents) == registeredStudents

\* registeredStudents.slice(0, 5): the students whose id, name and photo the
\* request to the service carries.
activeStudents(registeredStudents) ==
  SubSeq(registeredStudents, 1, Min(ReferenceCap, Len(registeredStudents)))

AnalysisError == [error |-> "Failed to analyze frame."]

analyzeFrame_NeverSettles(registeredStudents) ==
  IF Len(registeredStudents) = 0 THEN {NoStudentsVerdict} ELSE {}

\* Every way a call analyzeFrame(frame, registeredStudents) can end.
analyzeFrame(registeredStudents) ==
  IF Len(registeredStudents) = 0 THEN {NoStudentsVerdict}
  ELSE answers \cup {AnalysisError}

(***************************************************************************)
(* LiveScanner                                                             *)
(***************************************************************************)
LogCap == 10

addLog(prev, msg) == SubSeq(<<msg>> \o prev, 1, Min(Len(prev) + 1, LogCap))

RECURSIVE addLogs(_, _)
addLogs(prev, msgs) ==
  IF msgs = <<>> THEN prev ELSE addLogs(addLog(prev, Head(msgs)), Tail(msgs))

\* Property reads of a parsed verdict (an absent property reads undefined).
MatchIdOf(result) == IF "matchId" \in DOMAIN result THEN result.matchId ELSE UNDEFINED

IsRealPersonOf(result) == "isRealPerson" \in DOMAIN result /\ result.isRealPerson

PropOf(result, f) == IF f \in DOMAIN result THEN result[f] ELSE UNDEFINED

\* A value inside a template literal or a string concatenation.
TextOf(result, f) == IF f \in DOMAIN result THEN result[f] ELSE "undefined"

\* students.find(s => s.id === result.matchId)
HasStudent(list, id) == \E i \in 1..Len(list) : list[i].id = id

FindStudent(list, id) ==
  list[CHOOSE i \in 1..Len(list) :
         list[i].id = id /\ \A j \in 1..(i - 1) : list[j].id # id]

NotesOf_AlwaysSpoofing(result) ==
  "Spoofing Detected: " \o TextOf(result, "description")

NotesOf(result) ==
  IF IsRealPersonOf(result) THEN PropOf(result, "description")
  ELSE "Spoofing Detected: " \o TextOf(result, "description")

StatusOf_AlwaysPresent(result) == PRESENT

StatusOf(result) == IF IsRealPersonOf(result) THEN PRESENT ELSE PROXY_ATTEMPT

\* The records handleScan passes to onMarkAttendance for a verdict: none or one.
ScanCandidates(result, list, t) ==
  IF Truthy(MatchIdOf(result)) /\ HasStudent(list, MatchIdOf(result))
  THEN LET student == FindStudent(list, MatchIdOf(result))
       IN << [id |-> t,
              studentId |-> student.id,
              studentName |-> student.name,
              timestamp |-> LocaleTime(t),
              date |-> IsoDate(t),
              status |-> StatusOf(result),
              confidence |-> PropOf(result, "confidence"),
              emotion |-> PropOf(result, "emotion"),
              notes |-> NotesOf(result)] >>
  ELSE <<>>

ScanLogs_FailureLine(result, list) ==
  IF Truthy(MatchIdOf(result))
  THEN IF HasStudent(list, MatchIdOf(result))
       THEN LET student == FindStudent(list, MatchIdOf(result))
            IN IF IsRealPersonOf(result)
               THEN << "Marked " \o student.name \o " as PRESENT" >>
               ELSE << "Proxy Attempt blocked for " \o student.name >>
       ELSE <<>>
  ELSE << "Scan failed: AI Error" >>

\* The log lines handleScan adds for a verdict.
ScanLogs(result, list) ==
  IF Truthy(MatchIdOf(result))
  THEN IF HasStudent(list, MatchIdOf(result))
       THEN LET student == FindStudent(list, MatchIdOf(result))
            IN IF IsRealPersonOf(result)
               THEN << "Marked " \o student.name \o " as PRESENT" >>
               ELSE << "Proxy Attempt blocked for " \o student.name >>
       ELSE <<>>
  ELSE << "(i) " \o TextOf(result, "description") >>

Mounted == currentUser # Null /\ currentView = "live"

\* lastOp after an operation whose outcome no property needs to look back at.
OtherOp == [op |-> "other"]

\* lastOp.op after a call of handleScan (for a call that reached the service,
\* lastOp.sent is the reference students of the request), and after its
\* verdict was processed:
\* then lastOp holds the handleScan h that ran, the verdict (result), the
\* records it passed to onMarkAttendance (candidates), the lines it passed to
\* addLog (logged) and whether its LiveScanner was still mounted (live).
ScanCallOps == {"scanRejected", "scanAborted", "scanStarted", "scanImmediate"}

VerdictOps == {"scanDone", "scanImmediate"}

\* The handleScan function a render of the LiveScanner creates, with what it
\* captures: the isProcessing state, the students prop, the records that the
\* onMarkAttendance prop reads, and (history) the session it belongs to.
HandleScanOf(processing, recs) ==
  [isProcessing |-> processing,
   students |-> filteredStudents(students, currentUser),
   records |-> recs,
   actor |-> currentUser]

AutoScanEffect_NoCleanup(active, auto, processing, recs) ==
  IF <<active, auto, processing>> = <<isActive, autoMode, isProcessing>>
  THEN interval
  ELSE IF active /\ auto /\ ~processing
       THEN HandleScanOf(processing, recs)
       ELSE interval

\* The auto-scan effect after a render with the given [isActive, autoMode,
\* isProcessing]: it runs only when one of them changed, clears the interval
\* and installs one that calls the handleScan of that render.
AutoScanEffect(active, auto, processing, recs) ==
  IF <<active, auto, processing>> = <<isActive, autoMode, isProcessing>>
  THEN interval
  ELSE IF active /\ auto /\ ~processing
       THEN HandleScanOf(processing, recs)
       ELSE Null

(***************************************************************************)
(* Initial state: the app as mounted on a store that holds the user list   *)
(* and the registry of an earlier session; nobody is logged in.            *)
(***************************************************************************)
\* A LiveScanner instance as useState initialises it.
ScannerReset ==
  /\ isActive' = FALSE
  /\ isProcessing' = FALSE
  /\ autoMode' = FALSE
  /\ logs' = <<>>
  /\ lastScanResult' = Null
  /\ pendingStarts' = 0
  /\ nStarts' = 0

\* The LiveScanner is unmounted: the effect cleanup clears the interval, the
\* pending analyzeFrame calls stay pending.
Unmount ==
  /\ ScannerReset
  /\ interval' = Null
  /\ inflight' = { [e EXCEPT !.mounted = FALSE] : e \in inflight }

(***************************************************************************)
(* localStorage (App.tsx:38-72).  An item is the JSON text of a collection. *)
(* JSON.stringify leaves out a property whose value is undefined, and a    *)
(* property that the parsed object lacks reads as undefined again.         *)
(***************************************************************************)
\* The properties the types declare optional (assignedClass?, emotion?, notes?).
OptionalKeys == { "assignedClass", "emotion", "notes" }

StudentKeys == { "id", "name", "rollNumber", "classSection" }

RecordKeys ==
  { "id", "studentId", "studentName", "timestamp", "date", "status", "confidence",
    "emotion", "notes" }

UserKeys == { "username", "password", "name", "role", "assignedClass" }

ConfigKeys == { "name", "logo" }

StringifyObject(obj) ==
  [ k \in { q \in DOMAIN obj : ~(q \in OptionalKeys /\ obj[q] = UNDEFINED) } |-> obj[k] ]

ParseObject(text, keys) ==
  [ k \in keys \cup DOMAIN text |-> IF k \in DOMAIN text THEN text[k] ELSE UNDEFINED ]

\* JSON.stringify and JSON.parse of an array of objects.
JSONstringify(list) == [ text |-> [ i \in 1..Len(list) |-> StringifyObject(list[i]) ] ]

JSONparse(item, keys) == [ i \in 1..Len(item.text) |-> ParseObject(item.text[i], keys) ]

\* JSON.stringify and JSON.parse of the school settings, a single object.
JSONstringifyConfig(config) == [ text |-> StringifyObject(config) ]

JSONparseConfig(item) == ParseObject(item.text, ConfigKeys)

\* What the four persist effects write for the given state.
Persisted(studs, recs, us, config) ==
  [ eduscan_students |-> JSONstringify(studs),
    eduscan_records |-> JSONstringify(recs),
    eduscan_users |-> JSONstringify(us),
    eduscan_config |-> JSONstringifyConfig(config) ]

\* The persist effects after a render: each runs when its collection was set
\* (its dependency changed), and replaces the whole item.
PersistEffects ==
  /\ storage' =
       [ eduscan_students |-> IF students' # students THEN JSONstringify(students')
                              ELSE storage.eduscan_students,
         eduscan_records |-> IF records' # records THEN JSONstringify(records')
                             ELSE storage.eduscan_records,
         eduscan_users |-> IF users' # users THEN JSONstringify(users')
                           ELSE storage.eduscan_users,
         eduscan_config |-> IF schoolConfig' # schoolConfig
                            THEN JSONstringifyConfig(schoolConfig')
                            ELSE storage.eduscan_config ]
  /\ pendingLoad' = pendingLoad

InitWith(studs, us, ans) ==
  /\ currentUser = Null
  /\ currentView = "dashboard"
  /\ students = studs
  /\ records = <<>>
  /\ users = us
  /\ schoolConfig = DEFAULT_SCHOOL_CONFIG
  /\ now = StartClock
  /\ isActive = FALSE
  /\ isProcessing = FALSE
  /\ autoMode = FALSE
  /\ logs = <<>>
  /\ lastScanResult = Null
  /\ pendingStarts = 0
  /\ nStarts = 0
  /\ interval = Null
  /\ inflight = {}
  /\ answers = ans
  /\ nScans = 0
  /\ storage = Persisted(students, records, users, schoolConfig)
  /\ pendingLoad = Null
  /\ lastOp = OtherOp

Init == InitWith(<<StudentS1, StudentS2>>, <<SUPER_ADMIN, TeacherA>>, ScanAnswers)

(***************************************************************************)
(* Session and navigation (Login.handleLogin, App.handleLogin,             *)
(* App.handleLogout, Sidebar -> setCurrentView).                           *)
(***************************************************************************)
Credentials ==
  { <<"prahald", "Prahlad@12">>, <<"anita", "pwA">>, <<"bala", "pwB">>,
    <<"anita", "Prahlad@12">> }

MatchingUsers_ByUsername(username, password) ==
  { i \in 1..Len(users) : users[i].username = username }

\* users.find(u => u.username === username && u.password === password)
MatchingUsers(username, password) ==
  { i \in 1..Len(users) :
      users[i].username = username /\ users[i].password = password }

\* Login.handleLogin (the form is rendered while nobody is logged in) ->
\* App.handleLogin.  lastOp holds what was typed and the error the form shows.
LoginSubmit(username, password) ==
  /\ currentUser = Null
  /\ IF MatchingUsers(username, password) # {}
     THEN LET i == CHOOSE k \in MatchingUsers(username, password) :
                     \A j \in MatchingUsers(username, password) : k <= j
          IN /\ currentUser' = users[i]
             /\ currentView' = "dashboard"
             /\ lastOp' = [op |-> "login", username |-> username,
                           password |-> password, error |-> ""]
     ELSE /\ UNCHANGED <<currentUser, currentView>>
          /\ lastOp' = [op |-> "login", username |-> username,
                        password |-> password,
                        error |-> "Invalid username or password"]
  /\ UNCHANGED <<students, records, users, schoolConfig, answers, now, scannerVars, interval,
                 inflight, nScans>>
  /\ PersistEffects

handleLogout ==
  /\ currentUser # Null
  /\ currentUser' = Null
  /\ currentView' = "dashboard"
  /\ IF currentView = "live" THEN Unmount
     ELSE UNCHANGED <<scannerVars, interval, inflight>>
  /\ lastOp' = OtherOp
  /\ UNCHANGED <<students, records, users, schoolConfig, answers, now, nScans>>
  /\ PersistEffects

MenuItems(user) ==
  {"dashboard", "live", "students", "reports"}
    \cup (IF user.role = "admin" THEN {"admin"} ELSE {})

\* Sidebar click.  Leaving the live view unmounts the LiveScanner; entering it
\* mounts a new instance.
setCurrentView(view) ==
  /\ currentUser # Null
  /\ view \in MenuItems(currentUser)
  /\ view # currentView
  /\ currentView' = view
  /\ IF currentView = "live" THEN Unmount
     ELSE UNCHANGED <<scannerVars, interval, inflight>>
  /\ lastOp' = OtherOp
  /\ UNCHANGED <<currentUser, students, records, users, schoolConfig, answers, now, nScans>>
  /\ PersistEffects

handleDeleteStudent_PurgesEvents(id) ==
  /\ currentUser # Null
  /\ currentView = "students"
  /\ HasStudent(filteredStudents(students, currentUser), id)
  /\ LET Keep(s) == s.id # id
         KeepEvent(r) == r.studentId # id
     IN /\ students' = SelectSeq(students, Keep)
        /\ records' = SelectSeq(records, KeepEvent)
  /\ lastOp' = OtherOp
  /\ UNCHANGED <<currentUser, currentView, users, schoolConfig, answers, now,
                 scannerVars, interval, inflight, nScans>>
  /\ PersistEffects

\* StudentRegistry delete button -> App.handleDeleteStudent.
handleDeleteStudent(id) ==
  /\ currentUser # Null
  /\ currentView = "students"
  /\ HasStudent(filteredStudents(students, currentUser), id)
  /\ LET Keep(s) == s.id # id
     IN students' = SelectSeq(students, Keep)
  /\ lastOp' = OtherOp
  /\ UNCHANGED <<currentUser, currentView, records, users, schoolConfig, answers, now,
                 scannerVars, interval, inflight, nScans>>
  /\ PersistEffects

\* What the registry form can hold when it is submitted.
Names == {"Asha", "Mira"}

Classes == {"10-A", "10-B"}

FormClasses_Unlocked(user) == Classes

\* The class field is locked to the teacher's class; an admin types it.
FormClasses(user) ==
  IF user.role = "teacher" /\ Truthy(user.assignedClass)
  THEN {user.assignedClass} ELSE Classes

\* Ids in use: of registered students and of students the ledger refers to.
\* A new student's id is Date.now().toString(), which none of them has.
UsedIds ==
  { students[i].id : i \in 1..Len(students) }
    \cup { records[i].studentId : i \in 1..Len(records) }

\* Date.now() of the registration, read back from the id.
IdNumber(id) ==
  CASE id = "s1" -> 1 [] id = "s2" -> 2 [] id = "s3" -> 3 [] id = "s4" -> 4
    [] id = "s5" -> 5 [] id = "s6" -> 6 [] id = "s7" -> 7 [] id = "s8" -> 8
    [] id = "S101" -> 101

\* The clock has passed the registration of every student of the registry.
IsNewId(id) == \A i \in 1..Len(students) : IdNumber(students[i].id) < IdNumber(id)

\* StudentRegistry.handleSubmit without editingId -> App.handleAddStudent.
handleAddStudent(student) ==
  /\ currentUser # Null
  /\ currentView = "students"
  /\ Len(students) < MaxRegistry
  /\ student.id \notin UsedIds
  /\ student.classSection \in FormClasses(currentUser)
  /\ students' = Append(students, student)
  /\ lastOp' = OtherOp
  /\ UNCHANGED <<currentUser, currentView, records, users, schoolConfig, answers, now,
                 scannerVars, interval, inflight, nScans>>
  /\ PersistEffects

\* StudentRegistry.handleSubmit without editingId, with the id as the code
\* makes it: Date.now().toString(), the reading of the clock at the submit.
\* Nothing compares it with the ids of the registry.
handleSubmitNew(form) ==
  /\ currentUser # Null
  /\ currentView = "students"
  /\ Len(students) < MaxRegistry
  /\ form.classSection \in FormClasses(currentUser)
  /\ students' = Append(students, [id |-> ToString(now), name |-> form.name,
                                   rollNumber |-> form.rollNumber,
                                   classSection |-> form.classSection])
  /\ lastOp' = [op |-> "registered", id |-> ToString(now)]
  /\ UNCHANGED <<currentUser, currentView, records, users, schoolConfig, answers, now,
                 scannerVars, interval, inflight, nScans>>
  /\ PersistEffects

\* Edit button of a listed student, then StudentRegistry.handleSubmit with
\* editingId -> App.handleEditStudent.
handleEditStudent(updatedStudent) ==
  /\ currentUser # Null
  /\ currentView = "students"
  /\ HasStudent(filteredStudents(students, currentUser), updatedStudent.id)
  /\ updatedStudent.rollNumber =
       FindStudent(students, updatedStudent.id).rollNumber
  /\ updatedStudent.classSection \in
       IF currentUser.role = "teacher"
       THEN {FindStudent(students, updatedStudent.id).classSection}
       ELSE Classes
  /\ students' = [i \in 1..Len(students) |->
                    IF students[i].id = updatedStudent.id THEN updatedStudent
                    ELSE students[i]]
  /\ lastOp' = OtherOp
  /\ UNCHANGED <<currentUser, currentView, records, users, schoolConfig, answers, now,
                 scannerVars, interval, inflight, nScans>>
  /\ PersistEffects

(***************************************************************************)
(* AdminPanel (rendered for the view 'admin'; its content only for an      *)
(* admin session).                                                         *)
(***************************************************************************)
HasUser(list, username) == \E i \in 1..Len(list) : list[i].username = username

\* handleUserSubmit accepts the form: every field filled, a class for a
\* teacher; assignedClass is kept only for a teacher.
UserFormValid(userData) ==
  /\ userData.username # ""
  /\ userData.password # ""
  /\ userData.name # ""
  /\ userData.role \in {"admin", "teacher"}
  /\ IF userData.role = "teacher" THEN Truthy(userData.assignedClass)
     ELSE userData.assignedClass = UNDEFINED

\* The message handleUserSubmit sets with setUserError and returns on, for the
\* form fields as typed; "" if the form is accepted.
UserSubmitError(form, editing) ==
  IF form.username = "" \/ form.password = "" \/ form.name = ""
  THEN "All fields are required"
  ELSE IF form.role = "teacher" /\ ~Truthy(form.assignedClass)
       THEN "Teachers must be assigned a Class Section"
       ELSE IF ~editing /\ HasUser(users, form.username)
            THEN "Username already exists"
            ELSE ""

\* AdminPanel.handleUserSubmit returns early: nothing reaches the App.
UserSubmitRejected(form, editing) ==
  /\ currentUser # Null
  /\ currentView = "admin"
  /\ currentUser.role = "admin"
  /\ editing => HasUser(users, form.username)
  /\ UserSubmitError(form, editing) # ""
  /\ lastOp' = [op |-> "userRejected", error |-> UserSubmitError(form, editing)]
  /\ UNCHANGED <<appVars, records, now, scannerVars, interval, inflight, nScans>>
  /\ PersistEffects

handleAddUser_AllowsDuplicate(newUser) ==
  /\ currentUser # Null
  /\ currentView = "admin"
  /\ currentUser.role = "admin"
  /\ UserFormValid(newUser)
  /\ users' = Append(users, newUser)
  /\ lastOp' = OtherOp
  /\ UNCHANGED <<currentUser, currentView, students, records, schoolConfig,
                 answers, now, scannerVars, interval, inflight, nScans>>
  /\ PersistEffects

\* AdminPanel.handleUserSubmit without editingUser -> App.handleAddUser.
handleAddUser(newUser) ==
  /\ currentUser # Null
  /\ currentView = "admin"
  /\ currentUser.role = "admin"
  /\ UserFormValid(newUser)
  /\ ~HasUser(users, newUser.username)
  /\ users' = Append(users, newUser)
  /\ lastOp' = OtherOp
  /\ UNCHANGED <<currentUser, currentView, students, records, schoolConfig,
                 answers, now, scannerVars, interval, inflight, nScans>>
  /\ PersistEffects

handleEditUser_RefreshesSession(updatedUser) ==
  /\ currentUser # Null
  /\ currentView = "admin"
  /\ currentUser.role = "admin"
  /\ UserFormValid(updatedUser)
  /\ HasUser(users, updatedUser.username)
  /\ users' = [i \in 1..Len(users) |->
                 IF users[i].username = updatedUser.username THEN updatedUser
                 ELSE users[i]]
  /\ currentUser' = IF currentUser.username = updatedUser.username
                    THEN updatedUser ELSE currentUser
  /\ lastOp' = OtherOp
  /\ UNCHANGED <<currentView, students, records, schoolConfig,
                 answers, now, scannerVars, interval, inflight, nScans>>
  /\ PersistEffects

\* Edit button of a listed user (the username field is then locked), then
\* AdminPanel.handleUserSubmit with editingUser -> App.handleEditUser.
handleEditUser(updatedUser) ==
  /\ currentUser # Null
  /\ currentView = "admin"
  /\ currentUser.role = "admin"
  /\ UserFormValid(updatedUser)
  /\ HasUser(users, updatedUser.username)
  /\ users' = [i \in 1..Len(users) |->
                 IF users[i].username = updatedUser.username THEN updatedUser
                 ELSE users[i]]
  /\ lastOp' = OtherOp
  /\ UNCHANGED <<currentUser, currentView, students, records, schoolConfig,
                 answers, now, scannerVars, interval, inflight, nScans>>
  /\ PersistEffects

handleDeleteUser_AnyRow(username) ==
  /\ currentUser # Null
  /\ currentView = "admin"
  /\ currentUser.role = "admin"
  /\ HasUser(users, username)
  /\ LET Keep(u) == u.username # username
     IN users' = SelectSeq(users, Keep)
  /\ lastOp' = OtherOp
  /\ UNCHANGED <<currentUser, currentView, students, records, schoolConfig,
                 answers, now, scannerVars, interval, inflight, nScans>>
  /\ PersistEffects

handleDeleteUser_OwnAccount(username) ==
  /\ currentUser # Null
  /\ currentView = "admin"
  /\ currentUser.role = "admin"
  /\ HasUser(users, username)
  /\ username # "prahald"
  /\ LET Keep(u) == u.username # username
     IN users' = SelectSeq(users, Keep)
  /\ lastOp' = OtherOp
  /\ UNCHANGED <<currentUser, currentView, students, records, schoolConfig,
                 answers, now, scannerVars, interval, inflight, nScans>>
  /\ PersistEffects

\* Delete button of a listed user (not rendered for 'prahald' and for the
\* session's own account) -> App.handleDeleteUser.
handleDeleteUser(username) ==
  /\ currentUser # Null
  /\ currentView = "admin"
  /\ currentUser.role = "admin"
  /\ HasUser(users, username)
  /\ username # "prahald"
  /\ username # currentUser.username
  /\ LET Keep(u) == u.username # username
     IN users' = SelectSeq(users, Keep)
  /\ lastOp' = OtherOp
  /\ UNCHANGED <<currentUser, currentView, students, records, schoolConfig,
                 answers, now, scannerVars, interval, inflight, nScans>>
  /\ PersistEffects

\* AdminPanel.handleConfigSubmit -> App.setSchoolConfig.
handleConfigSubmit(config) ==
  /\ currentUser # Null
  /\ currentView = "admin"
  /\ currentUser.role = "admin"
  /\ schoolConfig' = config
  /\ lastOp' = OtherOp
  /\ UNCHANGED <<currentUser, currentView, students, records, users,
                 answers, now, scannerVars, interval, inflight, nScans>>
  /\ PersistEffects

\* What the load effect reads from the store and queues as state updates: an
\* absent item leaves its collection alone, except users, which is then set
\* to [SUPER_ADMIN].
LoadEffect(store) ==
  [ students |-> IF store.eduscan_students = Null THEN Null
                 ELSE [value |-> JSONparse(store.eduscan_students, StudentKeys)],
    records |-> IF store.eduscan_records = Null THEN Null
                ELSE [value |-> JSONparse(store.eduscan_records, RecordKeys)],
    users |-> IF store.eduscan_users = Null THEN [value |-> <<SUPER_ADMIN>>]
              ELSE [value |-> JSONparse(store.eduscan_users, UserKeys)],
    schoolConfig |-> IF store.eduscan_config = Null THEN Null
                     ELSE [value |-> JSONparseConfig(store.eduscan_config)] ]

AppMount_PersistFirst ==
  /\ pendingLoad = Null
  /\ currentUser' = Null
  /\ currentView' = "dashboard"
  /\ students' = <<>>
  /\ records' = <<>>
  /\ users' = <<SUPER_ADMIN>>
  /\ schoolConfig' = DEFAULT_SCHOOL_CONFIG
  /\ ScannerReset
  /\ interval' = Null
  /\ inflight' = {}
  /\ storage' = Persisted(students', records', users', schoolConfig')
  /\ pendingLoad' = LoadEffect(storage')
  /\ lastOp' = [op |-> "mounted", saved |-> storage]
  /\ UNCHANGED <<answers, now, nScans>>

\* The page is loaded again: App is mounted on the store as it is.  The first
\* render has the useState initial values; after it the effects run once, in
\* the order of their declaration: the load effect reads the store and queues
\* its updates, then the four persist effects write the rendered (initial)
\* state.  The calls that were pending in the old page are gone with it.
AppMount ==
  /\ pendingLoad = Null
  /\ currentUser' = Null
  /\ currentView' = "dashboard"
  /\ students' = <<>>
  /\ records' = <<>>
  /\ users' = <<SUPER_ADMIN>>
  /\ schoolConfig' = DEFAULT_SCHOOL_CONFIG
  /\ ScannerReset
  /\ interval' = Null
  /\ inflight' = {}
  /\ pendingLoad' = LoadEffect(storage)
  /\ storage' = Persisted(students', records', users', schoolConfig')
  /\ lastOp' = [op |-> "mounted", saved |-> storage]
  /\ UNCHANGED <<answers, now, nScans>>

\* The render of the updates the load effect queued, and the persist effects
\* of the collections that were set.
LoadSettles ==
  /\ pendingLoad # Null
  /\ students' = IF pendingLoad.students = Null THEN students
                 ELSE pendingLoad.students.value
  /\ records' = IF pendingLoad.records = Null THEN records
                ELSE pendingLoad.records.value
  /\ users' = pendingLoad.users.value
  /\ schoolConfig' = IF pendingLoad.schoolConfig = Null THEN schoolConfig
                     ELSE pendingLoad.schoolConfig.value
  /\ storage' =
       [ eduscan_students |-> IF pendingLoad.students = Null
                              THEN storage.eduscan_students
                              ELSE JSONstringify(students'),
         eduscan_records |-> IF pendingLoad.records = Null
                             THEN storage.eduscan_records
                             ELSE JSONstringify(records'),
         eduscan_users |-> JSONstringify(users'),
         eduscan_config |-> IF pendingLoad.schoolConfig = Null
                            THEN storage.eduscan_config
                            ELSE JSONstringifyConfig(schoolConfig') ]
  /\ pendingLoad' = Null
  /\ lastOp' = [op |-> "loaded", saved |-> lastOp.saved]
  /\ UNCHANGED <<currentUser, currentView, answers, now, scannerVars, interval,
                 inflight, nScans>>

\* Wall-clock time passes.
Advance(d) ==
  /\ now + d <= StartClock + MaxElapsed
  /\ now' = now + d
  /\ lastOp' = OtherOp
  /\ UNCHANGED <<appVars, records, scannerVars, interval, inflight, nScans>>
  /\ PersistEffects

(***************************************************************************)
(* LiveScanner: camera                                                     *)
(***************************************************************************)
\* Start Camera button (rendered while not isActive): startCamera up to its
\* await.
startCamera ==
  /\ Mounted
  /\ ~isActive
  /\ nStarts < MaxCameraStarts
  /\ pendingStarts' = pendingStarts + 1
  /\ nStarts' = nStarts + 1
  /\ lastOp' = OtherOp
  /\ UNCHANGED <<appVars, records, now, isActive, isProcessing, autoMode, logs,
                 lastScanResult, interval, inflight, nScans>>
  /\ PersistEffects

\* getUserMedia resolves: the rest of the try block.
CameraGranted ==
  /\ Mounted
  /\ pendingStarts > 0
  /\ pendingStarts' = pendingStarts - 1
  /\ isActive' = TRUE
  /\ logs' = addLog(logs, "Camera started")
  /\ interval' = AutoScanEffect(TRUE, autoMode, isProcessing, records)
  /\ lastOp' = [op |-> "cameraGranted"]
  /\ UNCHANGED <<appVars, records, now, isProcessing, autoMode, lastScanResult,
                 nStarts, inflight, nScans>>
  /\ PersistEffects

CameraDenied_Activates ==
  /\ Mounted
  /\ pendingStarts > 0
  /\ pendingStarts' = pendingStarts - 1
  /\ isActive' = TRUE
  /\ logs' = addLog(logs, "Error accessing camera")
  /\ lastOp' = [op |-> "cameraDenied"]
  /\ UNCHANGED <<appVars, records, now, isProcessing, autoMode,
                 lastScanResult, nStarts, interval, inflight, nScans>>
  /\ PersistEffects

\* getUserMedia rejects: the catch block.
CameraDenied ==
  /\ Mounted
  /\ pendingStarts > 0
  /\ pendingStarts' = pendingStarts - 1
  /\ logs' = addLog(logs, "Error accessing camera")
  /\ lastOp' = [op |-> "cameraDenied"]
  /\ UNCHANGED <<appVars, records, now, isActive, isProcessing, autoMode,
                 lastScanResult, nStarts, interval, inflight, nScans>>
  /\ PersistEffects

stopCamera_KeepsAuto ==
  /\ Mounted
  /\ isActive
  /\ isActive' = FALSE
  /\ autoMode' = autoMode
  /\ logs' = addLog(logs, "Camera stopped")
  /\ interval' = AutoScanEffect(FALSE, FALSE, isProcessing, records)
  /\ lastOp' = [op |-> "stopCamera"]
  /\ UNCHANGED <<appVars, records, now, isProcessing, lastScanResult,
                 pendingStarts, nStarts, inflight, nScans>>
  /\ PersistEffects

\* Stop button (rendered while isActive; video.srcObject is then set).
stopCamera ==
  /\ Mounted
  /\ isActive
  /\ isActive' = FALSE
  /\ autoMode' = FALSE
  /\ logs' = addLog(logs, "Camera stopped")
  /\ interval' = AutoScanEffect(FALSE, FALSE, isProcessing, records)
  /\ lastOp' = [op |-> "stopCamera"]
  /\ UNCHANGED <<appVars, records, now, isProcessing, lastScanResult,
                 pendingStarts, nStarts, inflight, nScans>>
  /\ PersistEffects

\* Auto Scan button (rendered while isActive): setAutoMode(!autoMode).
ToggleAuto ==
  /\ Mounted
  /\ isActive
  /\ autoMode' = ~autoMode
  /\ interval' = AutoScanEffect(isActive, ~autoMode, isProcessing, records)
  /\ lastOp' = OtherOp
  /\ UNCHANGED <<appVars, records, now, isActive, isProcessing, logs,
                 lastScanResult, pendingStarts, nStarts, inflight, nScans>>
  /\ PersistEffects

(***************************************************************************)
(* LiveScanner: handleScan                                                 *)
(***************************************************************************)
\* The early return: the call changes nothing.
ScanRejected ==
  /\ lastOp' = [op |-> "scanRejected"]
  /\ UNCHANGED <<appVars, records, now, scannerVars, interval, inflight, nScans>>
  /\ PersistEffects

\* canvas.getContext('2d') gives null: return inside try, then finally.  The
\* two setIsProcessing calls are one batch.
ScanAborted ==
  /\ logs' = addLog(logs, "Scanning frame...")
  /\ nScans' = nScans + 1
  /\ lastOp' = [op |-> "scanAborted"]
  /\ UNCHANGED <<appVars, records, now, isActive, isProcessing, autoMode,
                 lastScanResult, pendingStarts, nStarts, interval, inflight>>
  /\ PersistEffects

\* analyzeFrame answers without suspending on the network (no reference
\* students): the whole of handleScan runs before anything else can happen.
\* From a click the render with isProcessing = true is committed before the
\* continuation runs, so the effect reinstalls the interval afterwards; from
\* the timer all updates are one batch and the effect does not run.
ScanImmediate(h, manual) ==
  LET result == CHOOSE v \in analyzeFrame(h.students) : TRUE
      cands == ScanCandidates(result, h.students, now)
  IN /\ lastScanResult' = result
     /\ logs' = addLogs(addLog(logs, "Scanning frame..."), ScanLogs(result, h.students))
     /\ records' = IF cands = <<>> THEN records
                   ELSE handleMarkAttendance(h.records, records, cands[1])
     /\ interval' = IF manual
                    THEN IF isActive /\ autoMode
                         THEN HandleScanOf(FALSE, records')
                         ELSE Null
                    ELSE interval
     /\ nScans' = nScans + 1
     /\ lastOp' = [op |-> "scanImmediate", h |-> h, result |-> result,
                   candidates |-> cands, logged |-> ScanLogs(result, h.students),
                   live |-> TRUE]
     /\ UNCHANGED <<appVars, now, isActive, isProcessing, autoMode,
                    pendingStarts, nStarts, inflight>>
     /\ PersistEffects

\* handleScan up to `await analyzeFrame(frameBase64, students)`.
ScanSuspends(h) ==
  /\ isProcessing' = TRUE
  /\ logs' = addLog(logs, "Scanning frame...")
  /\ interval' = AutoScanEffect(isActive, autoMode, TRUE, records)
  /\ inflight' = inflight \cup {[id |-> nScans + 1, mounted |-> TRUE, h |-> h]}
  /\ nScans' = nScans + 1
  /\ lastOp' = [op |-> "scanStarted", sent |-> activeStudents(h.students)]
  /\ UNCHANGED <<appVars, records, now, isActive, autoMode, lastScanResult,
                 pendingStarts, nStarts>>
  /\ PersistEffects

\* A call of the handleScan function h of the mounted instance.
handleScan(h, manual) ==
  IF h.isProcessing THEN ScanRejected
  ELSE /\ nScans < MaxScans
       /\ \/ ScanAborted
          \/ Len(h.students) = 0 /\ ScanImmediate(h, manual)
          \/ Len(h.students) > 0 /\ ScanSuspends(h)

\* Scan Now button (rendered while isActive, disabled while isProcessing).
ScanNow ==
  /\ Mounted
  /\ isActive
  /\ handleScan(HandleScanOf(isProcessing, records), TRUE)

\* The interval fires.
TimerTick ==
  /\ interval # Null
  /\ handleScan(interval, FALSE)

ScanSettles_NoFinally(e, outcome) ==
  LET failed == outcome = AnalysisError
      cands == IF failed THEN <<>> ELSE ScanCandidates(outcome, e.h.students, now)
      msgs == IF failed THEN << "Scan failed: AI Error" >>
              ELSE ScanLogs(outcome, e.h.students)
  IN /\ inflight' = inflight \ {e}
     /\ records' = IF cands = <<>> THEN records
                   ELSE handleMarkAttendance(e.h.records, records, cands[1])
     /\ IF e.mounted
        THEN /\ lastScanResult' = IF failed THEN lastScanResult ELSE outcome
             /\ logs' = addLogs(logs, msgs)
             /\ isProcessing' = failed
             /\ interval' = AutoScanEffect(isActive, autoMode, FALSE, records')
             /\ UNCHANGED <<isActive, autoMode, pendingStarts, nStarts>>
        ELSE UNCHANGED <<scannerVars, interval>>
     /\ lastOp' = [op |-> IF failed THEN "scanFailed" ELSE "scanDone", h |-> e.h,
                   result |-> outcome, candidates |-> cands, logged |-> msgs,
                   live |-> e.mounted]
     /\ UNCHANGED <<appVars, now, nScans>>
     /\ PersistEffects

ScanSettles_Retries(e, outcome) ==
  LET failed == outcome = AnalysisError
      cands == IF failed THEN <<>> ELSE ScanCandidates(outcome, e.h.students, now)
      msgs == IF failed THEN << "Scan failed: AI Error" >>
              ELSE ScanLogs(outcome, e.h.students)
  IN /\ inflight' = IF failed
                    THEN (inflight \ {e}) \cup {[e EXCEPT !.id = nScans + 1]}
                    ELSE inflight \ {e}
     /\ nScans' = IF failed THEN nScans + 1 ELSE nScans
     /\ records' = IF cands = <<>> THEN records
                   ELSE handleMarkAttendance(e.h.records, records, cands[1])
     /\ IF e.mounted
        THEN /\ lastScanResult' = IF failed THEN lastScanResult ELSE outcome
             /\ logs' = addLogs(logs, msgs)
             /\ isProcessing' = failed
             /\ interval' = AutoScanEffect(isActive, autoMode, failed, records')
             /\ UNCHANGED <<isActive, autoMode, pendingStarts, nStarts>>
        ELSE UNCHANGED <<scannerVars, interval>>
     /\ lastOp' = [op |-> IF failed THEN "scanFailed" ELSE "scanDone", h |-> e.h,
                   result |-> outcome, candidates |-> cands, logged |-> msgs,
                   live |-> e.mounted]
     /\ UNCHANGED <<appVars, now>>
     /\ PersistEffects

\* analyzeFrame of the pending call e settles with `outcome`: the rest of
\* handleScan (try, catch, finally).  State updates of an instance that was
\* unmounted meanwhile are dropped; onMarkAttendance still reaches the App.
ScanSettles(e, outcome) ==
  LET failed == outcome = AnalysisError
      cands == IF failed THEN <<>> ELSE ScanCandidates(outcome, e.h.students, now)
      msgs == IF failed THEN << "Scan failed: AI Error" >>
              ELSE ScanLogs(outcome, e.h.students)
  IN /\ inflight' = inflight \ {e}
     /\ records' = IF cands = <<>> THEN records
                   ELSE handleMarkAttendance(e.h.records, records, cands[1])
     /\ IF e.mounted
        THEN /\ lastScanResult' = IF failed THEN lastScanResult ELSE outcome
             /\ logs' = addLogs(logs, msgs)
             /\ isProcessing' = FALSE
             /\ interval' = AutoScanEffect(isActive, autoMode, FALSE, records')
             /\ UNCHANGED <<isActive, autoMode, pendingStarts, nStarts>>
        ELSE UNCHANGED <<scannerVars, interval>>
     /\ lastOp' = [op |-> IF failed THEN "scanFailed" ELSE "scanDone", h |-> e.h,
                   result |-> outcome, candidates |-> cands, logged |-> msgs,
                   live |-> e.mounted]
     /\ UNCHANGED <<appVars, now, nScans>>
     /\ PersistEffects

(***************************************************************************)
(* The scanning system.                                                    *)
(***************************************************************************)
ScanViews == {"dashboard", "live", "students"}

Next ==
  \/ \E c \in Credentials : LoginSubmit(c[1], c[2])
  \/ handleLogout
  \/ \E v \in ScanViews : setCurrentView(v)
  \/ \E id \in {"s1", "s2"} : handleDeleteStudent(id)
  \/ \E d \in Deltas : Advance(d)
  \/ startCamera
  \/ CameraGranted
  \/ CameraDenied
  \/ stopCamera
  \/ ToggleAuto
  \/ ScanNow
  \/ TimerTick
  \/ \E e \in inflight : \E outcome \in analyzeFrame(e.h.students) : ScanSettles(e, outcome)

Spec == Init /\ [][Next]_vars

(***************************************************************************)
(* One session on one LiveScanner instance whose camera is started once,   *)
(* with every verdict the analyzer can give: the subject is what handleScan *)
(* does with a verdict.                                                    *)
(***************************************************************************)
\* Two registries: in the second the teacher of 10-A has no student, so that
\* analyzeFrame answers without calling the service.
InitVerdict ==
  \E r \in { <<StudentS1, StudentS2, StudentS3>>, <<StudentS2>> } :
    InitWith(r, <<SUPER_ADMIN, TeacherA>>, Verdicts)

NextVerdict ==
  \/ \E c \in Credentials : LoginSubmit(c[1], c[2])
  \/ setCurrentView("live")
  \/ \E d \in Deltas : Advance(d)
  \/ pendingStarts = 0 /\ startCamera
  \/ CameraGranted
  \/ ToggleAuto
  \/ ScanNow
  \/ TimerTick
  \/ \E e \in inflight : \E outcome \in analyzeFrame(e.h.students) : ScanSettles(e, outcome)

SpecVerdict == InitVerdict /\ [][NextVerdict]_vars

(***************************************************************************)
(* Teacher and admin sessions on a registry of two classes, with an        *)
(* analyzer that may name a student of either class: the subject is whose  *)
(* attendance a session's scan can record.                                 *)
(***************************************************************************)
ClassAnswers == { Verdict("s1", TRUE), Verdict("s2", TRUE) }

InitClass == InitWith(<<StudentS1, StudentS2>>, <<SUPER_ADMIN, TeacherA>>, ClassAnswers)

NextClass ==
  \/ \E c \in Credentials : LoginSubmit(c[1], c[2])
  \/ handleLogout
  \/ \E v \in {"live", "students"} : setCurrentView(v)
  \/ \E id \in {"s1", "s2"} : handleDeleteStudent(id)
  \/ startCamera
  \/ CameraGranted
  \/ ScanNow
  \/ \E e \in inflight : \E outcome \in analyzeFrame(e.h.students) : ScanSettles(e, outcome)

SpecClass == InitClass /\ [][NextClass]_vars

(***************************************************************************)
(* Sessions on every registry of up to MaxRegistry students: the subject   *)
(* is the role filter.                                                     *)
(***************************************************************************)
Pupils == {StudentS1, StudentS2, StudentS3, StudentS4}

\* Registries hold each student (id) once.
Registries ==
  UNION { { r \in [1..n -> Pupils] : \A i, j \in 1..n : r[i] = r[j] => i = j }
          : n \in 0..MaxRegistry }

InitRegistry ==
  \E r \in Registries : InitWith(r, <<SUPER_ADMIN, TeacherA, TeacherB>>, ScanAnswers)

NextRegistry ==
  \/ \E c \in Credentials : LoginSubmit(c[1], c[2])
  \/ handleLogout
  \/ \E v \in {"dashboard", "students"} : setCurrentView(v)
  \/ \E id \in {"s1", "s2", "s3", "s4"} : handleDeleteStudent(id)

SpecRegistry == InitRegistry /\ [][NextRegistry]_vars

(***************************************************************************)
(* Sessions that maintain the registry over a ledger of an earlier day:    *)
(* the subject is what of the ledger a session is shown.                   *)
(***************************************************************************)
\* The event an earlier scan recorded for student s, k hours before the start.
PastEvent(s, k) ==
  ScanCandidates(Verdict(s.id, TRUE), <<s>>, StartClock - 3600 * k)[1]

\* Ledgers as the load effect finds them in the store.
Ledgers ==
  { <<>>,
    << PastEvent(StudentS2, 1), PastEvent(StudentS1, 2), PastEvent(StudentS4, 3),
       PastEvent(StudentS1, 4) >> }

\* Every student the registry form can submit.
FormStudents ==
  { [id |-> p.id, name |-> n, rollNumber |-> p.rollNumber, classSection |-> c] :
      p \in Pupils, n \in Names, c \in Classes }

InitLedger ==
  \E r \in { <<StudentS1, StudentS2>>, <<StudentS3>> } : \E l \in Ledgers :
    /\ currentUser = Null
    /\ currentView = "dashboard"
    /\ students = r
    /\ records = l
    /\ users = <<SUPER_ADMIN, TeacherA, TeacherB>>
    /\ schoolConfig = DEFAULT_SCHOOL_CONFIG
    /\ now = StartClock
    /\ isActive = FALSE
    /\ isProcessing = FALSE
    /\ autoMode = FALSE
    /\ logs = <<>>
    /\ lastScanResult = Null
    /\ pendingStarts = 0
    /\ nStarts = 0
    /\ interval = Null
    /\ inflight = {}
    /\ answers = ScanAnswers
    /\ nScans = 0
    /\ storage = Persisted(students, records, users, schoolConfig)
    /\ pendingLoad = Null
    /\ lastOp = OtherOp

NextLedger ==
  \/ \E c \in Credentials : LoginSubmit(c[1], c[2])
  \/ handleLogout
  \/ \E v \in {"dashboard", "students", "reports"} : setCurrentView(v)
  \/ \E st \in FormStudents : handleAddStudent(st)
  \/ \E st \in FormStudents : handleEditStudent(st)
  \/ \E id \in {"s1", "s2", "s3", "s4"} : handleDeleteStudent(id)

SpecLedger == InitLedger /\ [][NextLedger]_vars

(***************************************************************************)
(* One admin session that uses the LiveScanner in every way its buttons,   *)
(* its timer and the view router allow: the subject is the camera / auto   *)
(* mode / scan state machine.                                              *)
(***************************************************************************)
ScannerAnswers == { Verdict("s1", TRUE) }

InitScanner == InitWith(<<StudentS1, StudentS2>>, <<SUPER_ADMIN>>, ScannerAnswers)

NextScanner ==
  \/ LoginSubmit("prahald", "Prahlad@12")
  \/ \E v \in {"dashboard", "live"} : setCurrentView(v)
  \/ startCamera
  \/ CameraGranted
  \/ CameraDenied
  \/ stopCamera
  \/ ToggleAuto
  \/ ScanNow
  \/ TimerTick
  \/ \E e \in inflight : \E outcome \in analyzeFrame(e.h.students) : ScanSettles(e, outcome)

SpecScanner == InitScanner /\ [][NextScanner]_vars

\* The session with a camera that is granted, one request at a time, when
\* every analyzeFrame call returns or fails: the promise of a pending call is
\* settled at some time, and its continuation runs.
NextScannerFair ==
  \/ LoginSubmit("prahald", "Prahlad@12")
  \/ \E v \in {"dashboard", "live"} : setCurrentView(v)
  \/ pendingStarts = 0 /\ startCamera
  \/ CameraGranted
  \/ stopCamera
  \/ ToggleAuto
  \/ ScanNow
  \/ TimerTick
  \/ \E e \in inflight : \E outcome \in analyzeFrame(e.h.students) : ScanSettles(e, outcome)

ScanSettlesEventually ==
  WF_vars(\E e \in inflight : \E outcome \in analyzeFrame(e.h.students) :
            ScanSettles(e, outcome))

SpecScannerFair ==
  InitScanner /\ [][NextScannerFair]_vars /\ ScanSettlesEventually

(***************************************************************************)
(* One admin session whose analyzer may also answer with objects that lack *)
(* required properties: the subject is what handleScan does with them.     *)
(***************************************************************************)
InitMalformed ==
  InitWith(<<StudentS1, StudentS2>>, <<SUPER_ADMIN>>,
           MalformedVerdicts \cup {Verdict("s1", TRUE)})

NextMalformed ==
  \/ LoginSubmit("prahald", "Prahlad@12")
  \/ setCurrentView("live")
  \/ \E d \in Deltas : Advance(d)
  \/ pendingStarts = 0 /\ startCamera
  \/ CameraGranted
  \/ ScanNow
  \/ \E e \in inflight : \E outcome \in analyzeFrame(e.h.students) : ScanSettles(e, outcome)

SpecMalformed == InitMalformed /\ [][NextMalformed]_vars

(***************************************************************************)
(* Admin sessions that scan and, in between and while an analysis is       *)
(* pending, maintain the registry, the user list and the school settings: *)
(* the subject is what can change the ledger.                              *)
(***************************************************************************)
AppendAnswers == { Verdict("s1", TRUE) }

InitAppend == InitWith(<<StudentS1>>, <<SUPER_ADMIN, TeacherA>>, AppendAnswers)

NextAppend ==
  \/ LoginSubmit("prahald", "Prahlad@12")
  \/ handleLogout
  \/ \E v \in {"live", "students", "admin"} : setCurrentView(v)
  \/ handleAddStudent(StudentS3)
  \/ handleEditStudent([StudentS1 EXCEPT !.name = "Mira"])
  \/ handleDeleteStudent("s1")
  \/ handleAddUser(TeacherB)
  \/ handleEditUser([TeacherA EXCEPT !.assignedClass = "10-B"])
  \/ handleDeleteUser("anita")
  \/ handleConfigSubmit([name |-> "Hill School", logo |-> ""])
  \/ pendingStarts = 0 /\ startCamera
  \/ CameraGranted
  \/ ScanNow
  \/ \E e \in inflight : \E outcome \in analyzeFrame(e.h.students) : ScanSettles(e, outcome)

SpecAppend == InitAppend /\ [][NextAppend]_vars

(***************************************************************************)
(* One admin session scanning two students while the clock runs from       *)
(* 23:58:30 over midnight in steps that give events exactly 60 seconds     *)
(* apart and events at 23:59:50 and 00:00:05; the live view may be left    *)
(* and re-entered while a scan is pending.  The subject is which           *)
(* candidates handleMarkAttendance accepts.                                *)
(***************************************************************************)
ClockSteps == {15, 40}

MidnightAnswers == { Verdict("s1", TRUE), Verdict("s2", TRUE) }

InitMidnight == InitWith(<<StudentS1, StudentS2>>, <<SUPER_ADMIN>>, MidnightAnswers)

NextMidnight ==
  \/ LoginSubmit("prahald", "Prahlad@12")
  \/ \E v \in {"dashboard", "live"} : setCurrentView(v)
  \/ \E d \in ClockSteps : Advance(d)
  \/ pendingStarts = 0 /\ startCamera
  \/ CameraGranted
  \/ ScanNow
  \/ \E e \in inflight : \E outcome \in analyzeFrame(e.h.students) : ScanSettles(e, outcome)

SpecMidnight == InitMidnight /\ [][NextMidnight]_vars

(***************************************************************************)
(* One teacher session on one LiveScanner instance: the teacher of "7-C"   *)
(* scans the one student of that class again and again, by button or by    *)
(* timer, the clock moving in steps of 10 seconds from 23:58:30.           *)
(***************************************************************************)
RescanStep == 10

RescanAnswers == { Verdict("S101", TRUE) }

InitRescan == InitWith(<<StudentS2, StudentS101>>, <<SUPER_ADMIN, TeacherC>>, RescanAnswers)

NextRescan ==
  \/ LoginSubmit("chitra", "pwC")
  \/ setCurrentView("live")
  \/ Advance(RescanStep)
  \/ pendingStarts = 0 /\ startCamera
  \/ CameraGranted
  \/ ToggleAuto
  \/ ScanNow
  \/ TimerTick
  \/ \E e \in inflight : \E outcome \in analyzeFrame(e.h.students) : ScanSettles(e, outcome)

SpecRescan == InitRescan /\ [][NextRescan]_vars

(***************************************************************************)
(* Reports: the monthly summary (reportType 'monthly', empty search box)   *)
(* of the records and students props, for a selected month.                *)
(***************************************************************************)
\* The months the month input is set to: that of the clock and the next.
SelectableMonths == { [y |-> 2025, m |-> 1], [y |-> 2025, m |-> 2] }

\* records.filter(r => rDate.getFullYear() === year && rDate.getMonth() + 1 === month)
monthRecords(recs, selectedMonth) ==
  LET InMonth(r) == r.date.y = selectedMonth.y /\ r.date.m = selectedMonth.m
  IN SelectSeq(recs, InMonth)

\* new Set(monthRecords.map(r => r.date)).size
uniqueDays(recs, selectedMonth) ==
  LET mr == monthRecords(recs, selectedMonth)
  IN Cardinality({ mr[i].date : i \in 1..Len(mr) })

\* Math.round((presentCount / totalDays) * 100)
Percentage(presentCount, totalDays) ==
  IF totalDays = 0 THEN 0 ELSE (200 * presentCount + totalDays) \div (2 * totalDays)

\* r.status === AttendanceStatus.PRESENT
CountsAs(r) == r.status = PRESENT

\* The rows of the monthly summary, one per student of the students prop.
monthlyStats(recs, studs, selectedMonth) ==
  LET mr == monthRecords(recs, selectedMonth)
      totalDays == uniqueDays(recs, selectedMonth)
      Row(student) ==
        LET Own(r) == r.studentId = student.id
            studentRecords == SelectSeq(mr, Own)
            presentCount == Len(SelectSeq(studentRecords, CountsAs))
            absentCount == totalDays - presentCount
        IN [student |-> student,
            present |-> presentCount,
            absent |-> IF absentCount < 0 THEN 0 ELSE absentCount,
            percentage |-> Percentage(presentCount, totalDays)]
  IN [i \in 1..Len(studs) |-> Row(studs[i])]

\* What the Reports view of the current session is given (App.renderContent).
ReportRecords == filteredRecords(records, students, currentUser)
ReportStudents == filteredStudents(students, currentUser)

(***************************************************************************)
(* Sessions of the admin and of both teachers on a stored ledger of three  *)
(* days of January, read in the Reports view while the registry is edited. *)
(***************************************************************************)
\* The proxy attempt an earlier scan recorded for student s, k hours before.
PastProxy(s, k) ==
  ScanCandidates(Verdict(s.id, FALSE), <<s>>, StartClock - 3600 * k)[1]

\* 29 January: s1.  30 January: s1 and a proxy attempt on s1.  31 January: s2.
ThreeDayLedger ==
  << PastEvent(StudentS2, 1), PastProxy(StudentS1, 25), PastEvent(StudentS1, 26),
     PastEvent(StudentS1, 50) >>

\* 31 January: s1 twice, an hour apart.
OneDayLedger == << PastEvent(StudentS1, 1), PastEvent(StudentS1, 2) >>

ReportLedgers == { <<>>, ThreeDayLedger, OneDayLedger }

InitReports ==
  \E l \in ReportLedgers :
    /\ currentUser = Null
    /\ currentView = "dashboard"
    /\ students = <<StudentS1, StudentS2>>
    /\ records = l
    /\ users = <<SUPER_ADMIN, TeacherA, TeacherB>>
    /\ schoolConfig = DEFAULT_SCHOOL_CONFIG
    /\ now = StartClock
    /\ isActive = FALSE
    /\ isProcessing = FALSE
    /\ autoMode = FALSE
    /\ logs = <<>>
    /\ lastScanResult = Null
    /\ pendingStarts = 0
    /\ nStarts = 0
    /\ interval = Null
    /\ inflight = {}
    /\ answers = ScanAnswers
    /\ nScans = 0
    /\ storage = Persisted(students, records, users, schoolConfig)
    /\ pendingLoad = Null
    /\ lastOp = OtherOp

NextReports ==
  \/ \E c \in Credentials : LoginSubmit(c[1], c[2])
  \/ handleLogout
  \/ \E v \in {"students", "reports"} : setCurrentView(v)
  \/ \E st \in FormStudents : handleAddStudent(st)
  \/ \E st \in FormStudents : handleEditStudent(st)
  \/ \E id \in {"s1", "s2"} : handleDeleteStudent(id)

SpecReports == InitReports /\ [][NextReports]_vars

(***************************************************************************)
(* An admin or a teacher session that scans on a registry of seven students, *)
(* six of them of class 10-A, or on one of two students that grows; the    *)
(* registry is edited between scans.  The subject is which students a      *)
(* request to the service carries.                                         *)
(***************************************************************************)
CapRegistries ==
  { <<StudentS1, StudentS2, StudentS3, StudentS5, StudentS6, StudentS7, StudentS8>>,
    <<StudentS1, StudentS2>> }

\* Submitted edits: s1 renamed, s3 moved to 10-B.
CapEdits ==
  { [StudentS1 EXCEPT !.name = "Mira"], [StudentS3 EXCEPT !.classSection = "10-B"] }

InitCap == \E r \in CapRegistries : InitWith(r, <<SUPER_ADMIN, TeacherA>>, ScannerAnswers)

NextCap ==
  \/ \E c \in {<<"prahald", "Prahlad@12">>, <<"anita", "pwA">>} : LoginSubmit(c[1], c[2])
  \/ \E v \in {"live", "students"} : setCurrentView(v)
  \/ IsNewId("s5") /\ handleAddStudent(StudentS5)
  \/ \E st \in CapEdits : handleEditStudent(st)
  \/ \E id \in {"s1", "s8"} : handleDeleteStudent(id)
  \/ pendingStarts = 0 /\ startCamera
  \/ CameraGranted
  \/ ScanNow
  \/ \E e \in inflight : \E outcome \in analyzeFrame(e.h.students) : ScanSettles(e, outcome)

SpecCap == InitCap /\ [][NextCap]_vars

(***************************************************************************)
(* Sessions of every account that work on the user list and the school     *)
(* settings: accounts are created, edited (the bootstrap account and the    *)
(* session's own account too) and deleted.                                 *)
(***************************************************************************)
\* What the user form is submitted with: a new teacher, the teacher 'anita'
\* made an admin, and the bootstrap account renamed or made a teacher.
UserForms ==
  { TeacherB,
    [TeacherA EXCEPT !.role = "admin", !.assignedClass = UNDEFINED],
    [SUPER_ADMIN EXCEPT !.name = "Prahlad"],
    [SUPER_ADMIN EXCEPT !.role = "teacher", !.assignedClass = "10-A"] }

Usernames == {"prahald", "anita", "bala"}

InitUsers == InitWith(<<StudentS1>>, <<SUPER_ADMIN, TeacherA>>, ScannerAnswers)

NextUsers ==
  \/ \E c \in Credentials : LoginSubmit(c[1], c[2])
  \/ handleLogout
  \/ \E v \in {"dashboard", "admin"} : setCurrentView(v)
  \/ \E u \in UserForms : handleAddUser(u)
  \/ \E u \in UserForms : handleEditUser(u)
  \/ \E n \in Usernames : handleDeleteUser(n)
  \/ handleConfigSubmit([name |-> "Hill School", logo |-> ""])

SpecUsers == InitUsers /\ [][NextUsers]_vars

(***************************************************************************)
(* Sessions of every account on the admin panel, with the submissions the  *)
(* user form rejects: the subject is the user list as a keyed collection   *)
(* and the session that works on it.                                       *)
(***************************************************************************)
\* User forms as typed: those of UserForms, a second account 'anita', and
\* forms with a field left empty.
AccountForms ==
  UserForms \cup
  { [TeacherA EXCEPT !.name = "Anita II", !.password = "pwA2"],
    [TeacherB EXCEPT !.password = ""],
    [TeacherB EXCEPT !.assignedClass = ""] }

InitAccounts ==
  InitWith(<<StudentS1, StudentS2>>, <<SUPER_ADMIN, TeacherA>>, ScannerAnswers)

NextAccounts ==
  \/ \E c \in Credentials : LoginSubmit(c[1], c[2])
  \/ handleLogout
  \/ \E v \in {"dashboard", "admin"} : setCurrentView(v)
  \/ \E u \in AccountForms : handleAddUser(u)
  \/ \E u \in AccountForms : handleEditUser(u)
  \/ \E u \in AccountForms : \E editing \in BOOLEAN : UserSubmitRejected(u, editing)
  \/ \E n \in Usernames : handleDeleteUser(n)
  \/ handleConfigSubmit([name |-> "Hill School", logo |-> ""])

SpecAccounts == InitAccounts /\ [][NextAccounts]_vars

(***************************************************************************)
(* Registrations on a running clock: between two submissions of the        *)
(* registry form the clock reading may or may not have changed.            *)
(***************************************************************************)
EnrolForms ==
  { [name |-> "Mira", rollNumber |-> "201", classSection |-> "10-A"],
    [name |-> "Dev", rollNumber |-> "202", classSection |-> "10-B"] }

InitEnrol == InitWith(<<StudentS1>>, <<SUPER_ADMIN, TeacherA>>, ScannerAnswers)

NextEnrol ==
  \/ \E c \in {<<"prahald", "Prahlad@12">>, <<"anita", "pwA">>} : LoginSubmit(c[1], c[2])
  \/ handleLogout
  \/ \E v \in {"dashboard", "students"} : setCurrentView(v)
  \/ \E d \in Deltas : Advance(d)
  \/ \E f \in EnrolForms : handleSubmitNew(f)
  \/ handleEditStudent([StudentS1 EXCEPT !.name = "Mira"])
  \/ \E i \in 1..Len(students) : handleDeleteStudent(students[i].id)

SpecEnrol == InitEnrol /\ [][NextEnrol]_vars

(***************************************************************************)
(* One admin session that scans two students while the clock runs over     *)
(* midnight, and reads the monthly report of the ledger the scans made.    *)
(***************************************************************************)
NextAttendance ==
  \/ LoginSubmit("prahald", "Prahlad@12")
  \/ \E v \in {"live", "reports"} : setCurrentView(v)
  \/ \E d \in ClockSteps : Advance(d)
  \/ pendingStarts = 0 /\ startCamera
  \/ CameraGranted
  \/ ScanNow
  \/ \E e \in inflight : \E outcome \in analyzeFrame(e.h.students) : ScanSettles(e, outcome)

SpecAttendance == InitMidnight /\ [][NextAttendance]_vars

(***************************************************************************)
(* The app over page loads: an admin maintains the registry, the accounts  *)
(* and the school settings and scans, and the page is loaded again at any  *)
(* moment.  The updates the load effect queued are rendered before         *)
(* anything else happens in the page.  The first page load of a browser    *)
(* finds the store empty.                                                  *)
(***************************************************************************)
EmptyStore ==
  [ eduscan_students |-> Null, eduscan_records |-> Null, eduscan_users |-> Null,
    eduscan_config |-> Null ]

InitStore ==
  \/ \E l \in Ledgers :
       /\ currentUser = Null
       /\ currentView = "dashboard"
       /\ students = <<StudentS1, StudentS2>>
       /\ records = l
       /\ users = <<SUPER_ADMIN, TeacherA>>
       /\ schoolConfig = DEFAULT_SCHOOL_CONFIG
       /\ now = StartClock
       /\ isActive = FALSE
       /\ isProcessing = FALSE
       /\ autoMode = FALSE
       /\ logs = <<>>
       /\ lastScanResult = Null
       /\ pendingStarts = 0
       /\ nStarts = 0
       /\ interval = Null
       /\ inflight = {}
       /\ answers = ScannerAnswers
       /\ nScans = 0
       /\ storage = Persisted(students, records, users, schoolConfig)
       /\ pendingLoad = Null
       /\ lastOp = OtherOp
  \/ /\ currentUser = Null
     /\ currentView = "dashboard"
     /\ students = <<>>
     /\ records = <<>>
     /\ users = <<SUPER_ADMIN>>
     /\ schoolConfig = DEFAULT_SCHOOL_CONFIG
     /\ now = StartClock
     /\ isActive = FALSE
     /\ isProcessing = FALSE
     /\ autoMode = FALSE
     /\ logs = <<>>
     /\ lastScanResult = Null
     /\ pendingStarts = 0
     /\ nStarts = 0
     /\ interval = Null
     /\ inflight = {}
     /\ answers = ScannerAnswers
     /\ nScans = 0
     /\ storage = Persisted(students, records, users, schoolConfig)
     /\ pendingLoad = LoadEffect(EmptyStore)
     /\ lastOp = [op |-> "mounted", saved |-> EmptyStore]

NextStore ==
  \/ AppMount
  \/ LoadSettles
  \/ pendingLoad = Null /\ LoginSubmit("prahald", "Prahlad@12")
  \/ pendingLoad = Null /\ \E v \in {"students", "live", "admin"} : setCurrentView(v)
  \/ pendingLoad = Null /\ handleSubmitNew([name |-> "Mira", rollNumber |-> "201",
                                            classSection |-> "10-A"])
  \/ pendingLoad = Null
       /\ handleEditUser([TeacherA EXCEPT !.role = "admin", !.assignedClass = UNDEFINED])
  \/ pendingLoad = Null /\ handleDeleteStudent("s1")
  \/ pendingLoad = Null /\ handleDeleteUser("anita")
  \/ pendingLoad = Null /\ handleConfigSubmit([name |-> "Hill School", logo |-> ""])
  \/ pendingLoad = Null /\ pendingStarts = 0 /\ startCamera
  \/ pendingLoad = Null /\ CameraGranted
  \/ pendingLoad = Null /\ ScanNow
  \/ pendingLoad = Null /\ \E e \in inflight : \E outcome \in analyzeFrame(e.h.students) :
                             ScanSettles(e, outcome)

SpecStore == InitStore /\ [][NextStore]_vars

(***************************************************************************)
(* Properties                                                              *)
(***************************************************************************)
\* Two ledger events of one student on one date less than 60 seconds apart.
TooClose(r1, r2) ==
  /\ r1.studentId = r2.studentId
  /\ r1.date = r2.date
  /\ Abs(ParseTime(r1.timestamp) - ParseTime(r2.timestamp)) < 60000

\* The verdict names a student of the reference set the scan was started with.
Resolves(result, refs) ==
  /\ result.matchId # NULL
  /\ \E i \in 1..Len(refs) : refs[i].id = result.matchId

InfoLine(result) == "(i) " \o result.description

\* The analyzeFrame calls that have not settled, by the scan that issued them.
PendingCalls == { e.id : e \in inflight }

\* The distinct dates of a month over the whole ledger.
LedgerDays(selectedMonth) ==
  Cardinality({ records[i].date :
                  i \in { k \in 1..Len(records) :
                            /\ records[k].date.y = selectedMonth.y
                            /\ records[k].date.m = selectedMonth.m } })

\* The PRESENT events of a month the whole ledger holds for a student.
LedgerPresent(id, selectedMonth) ==
  Cardinality({ i \in 1..Len(records) :
                  /\ records[i].studentId = id
                  /\ records[i].status = PRESENT
                  /\ records[i].date.y = selectedMonth.y
                  /\ records[i].date.m = selectedMonth.m })

\* The usernames of the user list.
UsernamesOf(list) == { list[i].username : i \in 1..Len(list) }

\* C1 (as claimed): in every reachable state at most one scan (capture ->
\* analyzeFrame -> record) is in flight, whatever the interleaving of manual
\* scans, timer ticks, camera start/stop, auto mode and view changes.
C1_AtMostOneScanInFlight == Cardinality(inflight) <= 1

\* C2 (as claimed): in every reachable ledger no two events with the same
\* studentId and the same date have timestamps less than 60 seconds apart.
C2_NoTwoEventsWithinWindow ==
  \A i, j \in 1..Len(records) : i < j => ~TooClose(records[i], records[j])

\* C3 (as claimed): a candidate that has the studentId and date of an event
\* already in the ledger and a timestamp less than 60 seconds from it is
\* rejected, the ledger staying as it was.
C3_CloseCandidateRejected ==
  [][ ( /\ lastOp'.op \in VerdictOps
        /\ lastOp'.candidates # <<>>
        /\ \E i \in 1..Len(records) : TooClose(records[i], lastOp'.candidates[1]) )
      => records' = records ]_vars

\* C4 (as claimed): a call of handleScan while a scan is in flight is a
\* no-op: no analyzer call starts, and the ledger, isProcessing, isActive and
\* autoMode stay as they were.
C4_ScanWhileInFlightIsNoOp ==
  [][ (lastOp'.op \in ScanCallOps /\ inflight # {})
      => /\ inflight' = inflight
         /\ records' = records
         /\ isProcessing' = isProcessing
         /\ isActive' = isActive
         /\ autoMode' = autoMode ]_vars

\* C5: a verdict whose matchId names a student of the reference set and whose
\* isRealPerson is true yields exactly one candidate: PRESENT, with that
\* student's id and name, the verdict's confidence and emotion, and the
\* verdict's description as notes.
C5_RealMatchGivesPresent ==
  ( /\ lastOp.op \in VerdictOps
    /\ Resolves(lastOp.result, lastOp.h.students)
    /\ lastOp.result.isRealPerson )
  => /\ Len(lastOp.candidates) = 1
     /\ LET c == lastOp.candidates[1]
        IN /\ c.status = "PRESENT"
           /\ c.studentId = lastOp.result.matchId
           /\ \E i \in 1..Len(lastOp.h.students) :
                /\ lastOp.h.students[i].id = c.studentId
                /\ lastOp.h.students[i].name = c.studentName
           /\ c.confidence = lastOp.result.confidence
           /\ c.emotion = lastOp.result.emotion
           /\ c.notes = lastOp.result.description

C5_Witness ==
  /\ lastOp.op = "scanDone"
  /\ Resolves(lastOp.result, lastOp.h.students)
  /\ lastOp.result.isRealPerson
  /\ Len(records) >= 2
  /\ records[1] = lastOp.candidates[1]

\* C6: a verdict whose matchId names a student of the reference set and whose
\* isRealPerson is false yields exactly one candidate, PROXY_ATTEMPT with notes
\* "Spoofing Detected: " + description, and that candidate goes through the
\* ledger's append: it becomes the head of the ledger unless the ledger the
\* append reads holds an event (of any status) of that student and date less
\* than 60 seconds from it, and then the ledger is unchanged.
C6_ProxyRecordedThroughDedup ==
  [][ ( /\ lastOp'.op \in VerdictOps
        /\ Resolves(lastOp'.result, lastOp'.h.students)
        /\ ~lastOp'.result.isRealPerson )
      => /\ Len(lastOp'.candidates) = 1
         /\ LET c == lastOp'.candidates[1]
                seen == lastOp'.h.records
            IN /\ c.status = "PROXY_ATTEMPT"
               /\ c.studentId = lastOp'.result.matchId
               /\ c.notes = "Spoofing Detected: " \o lastOp'.result.description
               /\ IF \E i \in 1..Len(seen) : TooClose(seen[i], c)
                  THEN records' = records
                  ELSE records' = <<c>> \o records ]_vars

\* A proxy attempt dropped by the dedup check against an earlier PRESENT event.
C6_Witness ==
  /\ lastOp.op = "scanDone"
  /\ Resolves(lastOp.result, lastOp.h.students)
  /\ ~lastOp.result.isRealPerson
  /\ Len(records) = 1
  /\ records[1].status = "PRESENT"
  /\ records[1].studentId = lastOp.candidates[1].studentId

\* C7: a verdict whose matchId is null yields no candidate and leaves the
\* ledger unchanged; handleScan logs the verdict's description as an info
\* line (shown as the newest log line while its LiveScanner is mounted), and
\* the scan ends as a normal one: no failure is logged, isProcessing is false.
C7_NullMatchIsLoggedNoMatch ==
  [][ (lastOp'.op \in VerdictOps /\ lastOp'.result.matchId = NULL)
      => /\ lastOp'.candidates = <<>>
         /\ records' = records
         /\ lastOp'.logged = << InfoLine(lastOp'.result) >>
         /\ lastOp'.live =>
              /\ logs' # <<>>
              /\ Head(logs') = InfoLine(lastOp'.result)
              /\ ~isProcessing' ]_vars

C7_Witness ==
  /\ lastOp.op = "scanDone"
  /\ lastOp.result.matchId = NULL
  /\ lastOp.live
  /\ Len(records) = 1
  /\ Len(logs) >= 4

\* C8 (as claimed): a verdict whose matchId is not null and names no student
\* of the reference set is treated as the null case: no candidate, and the
\* verdict's description logged as an info line.
C8_UnknownMatchLikeNull ==
  ( /\ lastOp.op \in VerdictOps
    /\ lastOp.result.matchId # NULL
    /\ ~Resolves(lastOp.result, lastOp.h.students) )
  => /\ lastOp.candidates = <<>>
     /\ lastOp.logged = << InfoLine(lastOp.result) >>

C10_FilterStudentsByRole ==
  currentUser # Null =>
    LET f == filteredStudents(students, currentUser)
        M == { i \in 1..Len(students) :
                 students[i].classSection = currentUser.assignedClass }
    IN IF currentUser.role = "admin" THEN f = students
       ELSE /\ currentUser.role = "teacher"
            /\ Len(f) = Cardinality(M)
            /\ \A i \in M : f[Cardinality({ j \in M : j <= i })] = students[i]

\* A teacher whose class is a proper, non-empty part of the registry, with a
\* student of another class registered before one of the teacher's.
C10_Witness ==
  /\ currentUser # Null
  /\ currentUser.role = "teacher"
  /\ Len(students) = 3
  /\ Len(filteredStudents(students, currentUser)) = 2
  /\ students[2].classSection # currentUser.assignedClass

\* C11: for an admin the record filter returns the ledger as it is; for a
\* teacher it returns the events whose studentId is the id of a student now
\* in the registry with the teacher's assignedClass as classSection, all of
\* them and in ledger order, in every state that student adds, edits and
\* deletes lead to.
C11_FilterEventsByRole ==
  currentUser # Null =>
    LET f == filteredRecords(records, students, currentUser)
        M == { i \in 1..Len(records) :
                 \E k \in 1..Len(students) :
                   /\ students[k].id = records[i].studentId
                   /\ students[k].classSection = currentUser.assignedClass }
    IN IF currentUser.role = "admin" THEN f = records
       ELSE /\ currentUser.role = "teacher"
            /\ Len(f) = Cardinality(M)
            /\ \A i \in M : f[Cardinality({ j \in M : j <= i })] = records[i]

\* The teacher of 10-A after the admin moved s2 into 10-A and s1 was deleted:
\* the events of s2 are shown, those of s1 and s4 are not.
C11_Witness ==
  /\ currentUser # Null
  /\ currentUser.username = "anita"
  /\ Len(records) = 4
  /\ filteredRecords(records, students, currentUser) = << records[1] >>
  /\ ~HasStudent(students, "s1")

\* C12: when the analyzer call fails, handleScan passes no record to the
\* ledger and the ledger is unchanged; it logs the failure; and on the
\* LiveScanner that ran the scan isProcessing becomes false with the camera
\* state and auto mode as they were, the failure line being the newest log.
C12_AnalyzerFailureHandled ==
  [][ lastOp'.op = "scanFailed"
      => /\ lastOp'.candidates = <<>>
         /\ records' = records
         /\ lastOp'.logged = << "Scan failed: AI Error" >>
         /\ lastOp'.live =>
              /\ ~isProcessing'
              /\ isActive' = isActive
              /\ autoMode' = autoMode
              /\ logs' # <<>>
              /\ Head(logs') = "Scan failed: AI Error" ]_vars

\* A failed analysis after an earlier scan was recorded, camera still on.
C12_Witness ==
  /\ lastOp.op = "scanFailed"
  /\ lastOp.live
  /\ isActive
  /\ ~isProcessing
  /\ Len(records) = 1

\* C13 (as claimed): an analyzer answer that lacks a required field is
\* handled as a failed analysis (the catch branch), and the ledger is left as
\* it was.
C13_MalformedVerdictIsError ==
  [][ ( /\ lastOp'.op \in {"scanDone", "scanFailed"}
        /\ "error" \notin DOMAIN lastOp'.result
        /\ ~(RequiredFields \subseteq DOMAIN lastOp'.result) )
      => /\ lastOp'.op = "scanFailed"
         /\ records' = records ]_vars

\* C14 (as claimed): stop() puts the LiveScanner in Idle (isActive and
\* autoMode false) with the auto-scan timer cancelled and the scans in flight
\* left pending, and Idle lasts until start() is called again: whatever step
\* follows a stop(), the camera is not active after it (a start() call itself
\* only requests the camera).
C14_StopHoldsUntilStart ==
  [][ /\ lastOp'.op = "stopCamera"
         => /\ ~isActive'
            /\ ~autoMode'
            /\ interval' = Null
            /\ inflight' = inflight
            /\ records' = records
      /\ lastOp.op = "stopCamera" => ~isActive' ]_vars

\* C15 (as claimed): a timer tick while a scan is in flight starts nothing
\* (the in-flight calls and the count of handleScan runs stay as they were),
\* and the step in which an analysis settles starts no scan either.
C15_TickSkippedWhileScanning ==
  [][ /\ (TimerTick /\ inflight # {})
         => (inflight' = inflight /\ nScans' = nScans)
      /\ lastOp'.op \in {"scanDone", "scanFailed"}
         => (inflight' \subseteq inflight /\ nScans' = nScans) ]_vars

\* C16: when every analyzeFrame call returns or fails, a LiveScanner whose
\* isProcessing is true gets to isProcessing = false, and the pending
\* analyses all come to an end.
C16_ScanEventuallyCompletes ==
  /\ isProcessing ~> ~isProcessing
  /\ (inflight # {}) ~> (inflight = {})

\* A scan that failed after the camera was stopped: isProcessing is false
\* again, in Idle.
C16_Witness ==
  /\ lastOp.op = "scanFailed"
  /\ lastOp.live
  /\ ~isProcessing
  /\ ~isActive
  /\ inflight = {}

\* C17: a handleScan run that gets past its guard (it starts a capture, or
\* finds no 2d context) happens only while the camera is on: from the Scan
\* Now button or from the timer, never while isActive is false.
C17_ScanStartsOnlyWhenActive ==
  [][ lastOp'.op \in {"scanStarted", "scanImmediate", "scanAborted"}
      => isActive ]_vars

\* A scan started with auto mode on, after the camera was stopped and
\* started again.
C17_Witness ==
  /\ lastOp.op = "scanStarted"
  /\ isActive
  /\ autoMode
  /\ \E i \in 1..Len(logs) : logs[i] = "Camera stopped"

\* C18: autoMode is true only while isActive is true, and autoMode changes
\* only in a step taken while isActive is true.
C18_AutoModeOnlyWhenActive ==
  [][ /\ autoMode' => isActive'
      /\ autoMode' # autoMode => isActive ]_vars

\* Auto mode on after a stop and a following start.
C18_Witness ==
  /\ autoMode
  /\ isActive
  /\ pendingStarts = 0
  /\ nStarts = 2
  /\ logs # <<>>
  /\ \E i \in 2..Len(logs) : logs[i] = "Camera stopped"

\* C19: a granted camera request makes isActive true and logs the start; a
\* denied one leaves isActive, autoMode, isProcessing and the timer as they
\* were and logs the error; isActive turns from false to true in no other
\* step.
C19_StartCameraOutcomes ==
  [][ /\ lastOp'.op = "cameraGranted"
         => /\ isActive'
            /\ autoMode' = autoMode
            /\ isProcessing' = isProcessing
            /\ Head(logs') = "Camera started"
      /\ lastOp'.op = "cameraDenied"
         => /\ isActive' = isActive
            /\ autoMode' = autoMode
            /\ isProcessing' = isProcessing
            /\ interval' = interval
            /\ Head(logs') = "Error accessing camera"
      /\ (~isActive /\ isActive') => lastOp'.op = "cameraGranted" ]_vars

\* The camera was denied: still Idle, the error is the newest log line.
C19_Witness ==
  /\ lastOp.op = "cameraDenied"
  /\ ~isActive
  /\ ~autoMode
  /\ logs = << "Error accessing camera" >>

\* C20: the ledger changes only in the step in which a scan's verdict is
\* processed and its candidate is accepted, and then the candidate is put in
\* front of the events the ledger held, which stay as they were (studentName
\* included) and in their order; every other step leaves the ledger as it is.
C20_LedgerAppendOnly ==
  [][ records' # records
      => /\ lastOp'.op \in VerdictOps
         /\ lastOp'.candidates # <<>>
         /\ records' = << lastOp'.candidates[1] >> \o records ]_vars

\* The student of a recorded event was renamed afterwards and the teacher's
\* account was deleted: the event still carries the name it was recorded with.
C20_Witness ==
  /\ Len(records) = 1
  /\ records[1].studentName = "Asha"
  /\ HasStudent(students, "s1")
  /\ FindStudent(students, "s1").name = "Mira"
  /\ ~HasUser(users, "anita")
  /\ schoolConfig.name = "Hill School"


\* C21: a candidate for which no event of the ledger has the same studentId,
\* the same date and a timestamp less than 60 seconds away (so also one that
\* is exactly 60 seconds from the nearest event) is accepted: it becomes the
\* first element of the ledger and the previous events follow in their order.
C21_DistantCandidateAccepted ==
  [][ ( /\ lastOp'.op \in VerdictOps
        /\ lastOp'.candidates # <<>>
        /\ \A i \in 1..Len(records) : ~TooClose(records[i], lastOp'.candidates[1]) )
      => records' = <<lastOp'.candidates[1]>> \o records ]_vars

\* A candidate exactly 60 seconds after the event of the same student and
\* date was accepted and heads the ledger.
C21_Witness ==
  /\ lastOp.op = "scanDone"
  /\ lastOp.candidates # <<>>
  /\ Len(records) >= 2
  /\ records[1] = lastOp.candidates[1]
  /\ \E i \in 2..Len(records) :
        /\ records[i].studentId = records[1].studentId
        /\ records[i].date = records[1].date
        /\ ParseTime(records[1].timestamp) - ParseTime(records[i].timestamp) = 60000

\* C22: a candidate whose date differs from the date of every event the
\* ledger holds for its student is accepted, whatever the times of day: an
\* event at 23:59:50 and a candidate at 00:00:05 of the next date both stay.
C22_OtherDateNeverDeduplicated ==
  [][ ( /\ lastOp'.op \in VerdictOps
        /\ lastOp'.candidates # <<>>
        /\ \A i \in 1..Len(records) :
              records[i].studentId = lastOp'.candidates[1].studentId
                => records[i].date # lastOp'.candidates[1].date )
      => /\ records' = <<lastOp'.candidates[1]>> \o records
         /\ \A i \in 1..Len(records) : records'[i + 1] = records[i] ]_vars

\* The ledger holds an event of 31 January 23:59:50 and, accepted after it,
\* one of the same student of 1 February 00:00:05.
C22_Witness ==
  /\ lastOp.op = "scanDone"
  /\ Len(records) >= 2
  /\ records[1] = lastOp.candidates[1]
  /\ records[1].date = [y |-> 2025, m |-> 2, d |-> 1]
  /\ records[1].timestamp = [h |-> 12, m |-> 0, s |-> 5, ap |-> "AM"]
  /\ \E i \in 2..Len(records) :
        /\ records[i].studentId = records[1].studentId
        /\ records[i].date = [y |-> 2025, m |-> 1, d |-> 31]
        /\ records[i].timestamp = [h |-> 11, m |-> 59, s |-> 50, ap |-> "PM"]

C24_FailedScanNotRetried ==
  [][ /\ lastOp'.op = "scanFailed"
           => /\ PendingCalls' \subseteq PendingCalls
              /\ nScans' = nScans
      /\ (nScans' # nScans \/ ~(PendingCalls' \subseteq PendingCalls))
           => (ScanNow \/ TimerTick) ]_vars

\* A scan of the mounted LiveScanner has just failed in auto mode: no call
\* is pending and the timer is armed for the next, independent scan.
C24_Witness ==
  /\ lastOp.op = "scanFailed"
  /\ lastOp.live
  /\ logs[1] = "Scan failed: AI Error"
  /\ inflight = {}
  /\ ~isProcessing
  /\ autoMode
  /\ interval # Null

\* C25 (as claimed): the scanner logs an outcome for every verdict the
\* analyzer returns, and a candidate that the dedup check rejects is not
\* logged as a recorded attendance.
C25_OutcomeLoggedAsItWas ==
  [][ (lastOp'.op \in VerdictOps /\ lastOp'.live)
      => /\ lastOp'.logged # <<>>
         /\ (lastOp'.candidates # <<>> /\ records' = records)
              => \A i \in 1..Len(lastOp'.logged) :
                   lastOp'.logged[i] #
                     "Marked " \o lastOp'.candidates[1].studentName \o " as PRESENT" ]_vars

\* C26 (as claimed): the number of scanned days the monthly summary works
\* with is the number of distinct dates of the month over the whole ledger,
\* whoever views the report.
C26_TotalDaysOverWholeLedger ==
  (currentUser # Null /\ currentView = "reports")
    => \A sel \in SelectableMonths : uniqueDays(ReportRecords, sel) = LedgerDays(sel)

\* C27 (as claimed): in every row of the monthly summary, present is the
\* number of the student's PRESENT events of the month (proxy attempts are
\* not counted) and absent is max(0, totalScannedDays - present), where
\* totalScannedDays is the number of distinct scan dates of the month.
C27_PresentAndAbsentDays ==
  (currentUser # Null /\ currentView = "reports")
    => \A sel \in SelectableMonths :
         LET stats == monthlyStats(ReportRecords, ReportStudents, sel)
         IN \A i \in 1..Len(stats) :
              /\ stats[i].present = LedgerPresent(stats[i].student.id, sel)
              /\ stats[i].absent =
                   IF LedgerDays(sel) < stats[i].present THEN 0
                   ELSE LedgerDays(sel) - stats[i].present

\* C28: a request to the service carries at most 5 reference students, and
\* they are the first 5 (or all, if fewer) of the role-filtered student list
\* of the session that scans, in the order of registration.
C28_FirstFiveInRegistrationOrder ==
  [][ lastOp'.op = "scanStarted"
      => LET sent == lastOp'.sent
             list == filteredStudents(students, currentUser)
         IN /\ Len(sent) <= 5
            /\ Len(sent) = Min(5, Len(list))
            /\ \A i \in 1..Len(sent) : sent[i] = list[i]
            /\ \A i, j \in 1..Len(sent) :
                  i < j => IdNumber(sent[i].id) < IdNumber(sent[j].id)
            /\ \A k \in 1..Len(list) : \A i \in 1..Len(sent) :
                  k > Len(sent) => IdNumber(sent[i].id) < IdNumber(list[k].id) ]_vars

\* A teacher's scan on a class of six students, the first of them renamed:
\* the request carries five students and leaves out the last of the class.
C28_Witness ==
  /\ lastOp.op = "scanStarted"
  /\ currentUser = TeacherA
  /\ Len(lastOp.sent) = 5
  /\ Len(filteredStudents(students, currentUser)) = 6
  /\ Len(students) = 7
  /\ lastOp.sent[1].name = "Mira"

\* C29: in every reachable state the user list holds exactly one account
\* with the username 'prahald', whatever accounts were added, edited and
\* deleted.
C29_BootstrapAdminPresentOnce ==
  Cardinality({ i \in 1..Len(users) : users[i].username = "prahald" }) = 1

\* An account was added, 'anita' was deleted and the bootstrap account was
\* edited: it is still listed.
C29_Witness ==
  /\ HasUser(users, "bala")
  /\ ~HasUser(users, "anita")
  /\ HasUser(users, "prahald")
  /\ \A i \in 1..Len(users) : users[i] # SUPER_ADMIN

\* C30 (as claimed): the user list and the school config change only in a
\* session of a user whose record in the user list has the role admin.
C30_OnlyAdminsChangeUsersAndConfig ==
  [][ (users' # users \/ schoolConfig' # schoolConfig)
      => /\ currentUser # Null
         /\ \E i \in 1..Len(users) :
              /\ users[i].username = currentUser.username
              /\ users[i].role = "admin" ]_vars

\* C31: no two entries of the user list have the same username; a step that
\* adds an entry adds a username that was not in the list, a submission of an
\* existing username as a new account is answered with an error and leaves
\* the list as it was, and no step changes the username of an entry.
C31_UsernamesUnique ==
  /\ [](\A i, j \in 1..Len(users) : i < j => users[i].username # users[j].username)
  /\ [][ /\ Len(users') > Len(users)
             => /\ Len(users') = Len(users) + 1
                /\ users'[Len(users')].username \notin UsernamesOf(users)
         /\ Len(users') = Len(users)
             => \A i \in 1..Len(users) : users'[i].username = users[i].username
         /\ (lastOp'.op = "userRejected" /\ lastOp'.error = "Username already exists")
             => users' = users ]_vars

\* After an account was added, a new account with the username of an
\* existing one was submitted and rejected.
C31_Witness ==
  /\ lastOp.op = "userRejected"
  /\ lastOp.error = "Username already exists"
  /\ Len(users) = 3
  /\ Cardinality(UsernamesOf(users)) = 3

\* C32 (as claimed): in every reachable state no two students of the registry
\* have the same id, after any sequence of registrations, edits and
\* deletions.
C32_StudentIdsUnique ==
  \A i, j \in 1..Len(students) : i < j => students[i].id # students[j].id

\* C33: a session begins only with a login whose username and password are
\* those of an entry of the user list, and that entry becomes the current
\* user; a login with anything else shows an error and leaves the current
\* user null; while nobody is logged in the visible students and events are
\* empty.
C33_LoginByExactCredentials ==
  /\ [](currentUser = Null
          => /\ filteredStudents(students, currentUser) = <<>>
             /\ filteredRecords(records, students, currentUser) = <<>>)
  /\ [][ /\ (currentUser = Null /\ currentUser' # Null)
             => /\ lastOp'.op = "login"
                /\ lastOp'.error = ""
                /\ \E i \in 1..Len(users) :
                     /\ users[i] = currentUser'
                     /\ users[i].username = lastOp'.username
                     /\ users[i].password = lastOp'.password
         /\ ( /\ lastOp'.op = "login"
              /\ ~\E i \in 1..Len(users) :
                    /\ users[i].username = lastOp'.username
                    /\ users[i].password = lastOp'.password )
             => /\ currentUser' = Null
                /\ lastOp'.error = "Invalid username or password" ]_vars

\* A login with the username of one account and the password of another was
\* refused, on a store that holds students and events.
C33_Witness ==
  /\ lastOp.op = "login"
  /\ lastOp.username = "anita"
  /\ lastOp.password = "Prahlad@12"
  /\ lastOp.error = "Invalid username or password"
  /\ currentUser = Null
  /\ students # <<>>
  /\ records # <<>>

\* C35 (as claimed): in every reachable state the user list holds at least
\* one account with the role admin.
C35_SomeAdminExists ==
  \E i \in 1..Len(users) : users[i].role = "admin"

\* C36: a step that changes the user list leaves the session as it is: the
\* current user, and with it the visible students, the visible events and
\* the menu with its admin entry, are those of the login; the current user
\* changes only by a login or a logout.
C36_SessionKeepsLoginSnapshot ==
  [][ /\ users' # users
           => /\ currentUser' = currentUser
              /\ filteredStudents(students', currentUser')
                   = filteredStudents(students, currentUser)
              /\ filteredRecords(records', students', currentUser')
                   = filteredRecords(records, students, currentUser)
              /\ MenuItems(currentUser') = MenuItems(currentUser)
      /\ currentUser' # currentUser
           => (lastOp'.op = "login" \/ currentUser' = Null) ]_vars

\* The record of the logged-in admin was edited to a teacher of 10-A: the
\* session still is an admin's, sees every student and has the admin panel.
C36_Witness ==
  /\ currentUser # Null
  /\ currentUser.role = "admin"
  /\ currentView = "admin"
  /\ \E i \in 1..Len(users) :
        /\ users[i].username = currentUser.username
        /\ users[i].role = "teacher"
        /\ users[i].assignedClass = "10-A"
  /\ filteredStudents(students, currentUser) = <<StudentS1, StudentS2>>
  /\ "admin" \in MenuItems(currentUser)

\* C37: while a user is logged in, the user list holds an account with the
\* username of the current user.
C37_SessionAccountExists ==
  currentUser # Null => HasUser(users, currentUser.username)

\* In a session of 'prahald' the account 'anita' was deleted; the account of
\* the session is listed.
C37_Witness ==
  /\ currentUser # Null
  /\ currentUser.username = "prahald"
  /\ currentView = "admin"
  /\ ~HasUser(users, "anita")
  /\ HasUser(users, "prahald")

C39_PresentWithinScannedDays ==
  (currentUser # Null /\ currentView = "reports")
    => \A sel \in SelectableMonths :
         LET stats == monthlyStats(ReportRecords, ReportStudents, sel)
         IN \A i \in 1..Len(stats) :
              /\ stats[i].present <= uniqueDays(ReportRecords, sel)
              /\ stats[i].percentage \in 0..100
\* The store holds all four collections.
HoldsAll(store) ==
  \A k \in DOMAIN store : store[k] # Null

\* C34: Persistence round trip.  Whenever no load is pending, each of the four
\* items of the store is the whole of its collection as it is in memory, and
\* reading the store gives the collections back.  A page load on a store that
\* holds saved collections ends, once the loaded values are rendered, with the
\* collections in memory equal to the saved ones and the store holding what it
\* held before the page load.
C34_PersistenceRoundTrip ==
  /\ [](pendingLoad = Null =>
          /\ storage = Persisted(students, records, users, schoolConfig)
          /\ LoadEffect(storage) =
               [ students |-> [value |-> students], records |-> [value |-> records],
                 users |-> [value |-> users],
                 schoolConfig |-> [value |-> schoolConfig] ])
  /\ [][(lastOp'.op = "loaded" /\ HoldsAll(lastOp'.saved)) =>
          /\ storage' = lastOp'.saved
          /\ Persisted(students', records', users', schoolConfig') = lastOp'.saved
          /\ students' = JSONparse(lastOp'.saved.eduscan_students, StudentKeys)
          /\ records' = JSONparse(lastOp'.saved.eduscan_records, RecordKeys)
          /\ users' = JSONparse(lastOp'.saved.eduscan_users, UserKeys)
          /\ schoolConfig' = JSONparseConfig(lastOp'.saved.eduscan_config)]_vars

\* A page load has brought back a registry, a ledger with a scanned event, an
\* account that was edited into an admin and the changed school settings.
C34_Witness ==
  /\ lastOp.op = "loaded"
  /\ HoldsAll(lastOp.saved)
  /\ pendingLoad = Null
  /\ Len(students) > 0
  /\ \E i \in 1..Len(records) : records[i].date = IsoDate(StartClock)
  /\ \E i \in 1..Len(users) : users[i].username = "anita" /\ users[i].role = "admin"
  /\ schoolConfig.name = "Hill School"

====
